---------------------------- MODULE Spec2Model ----------------------------
(***************************************************************************)
(* Real-time synchronization hub of proassist (src-tauri/src/lib.rs):      *)
(* the text-to-slide segmentation (parse_notepad_text), the in-memory      *)
(* store (SERVER_STATE), the broadcast channel with one forwarder and one  *)
(* reader per WebSocket connection (handle_ws_connection) and the control  *)
(* surface commands that mutate the store and publish events.              *)
(*                                                                         *)
(* A text is a sequence of one-character strings.  A serialized JSON       *)
(* envelope is a record with a "type" field.  Option<T> is a sequence of   *)
(* length at most one: <<>> is None, <<v>> is Some(v).                     *)
(***************************************************************************)
EXTENDS Integers, Sequences, FiniteSets, TLC

VARIABLES
    sessions,       \* ServerState.sessions: session id -> LiveSlideSession
    schedule,       \* ServerState.schedule: ScheduleState
    timer_state,    \* ServerState.timer_state: TimerState
    display_state,  \* ServerState.display_state: DisplayState
    chan,           \* every message sent on ServerState.broadcast_tx, in send order
    conn,           \* per connection: "new", "open" (reader loop running), "closed"
    sub,            \* per connection: Len(chan) when broadcast_rx was subscribed
    cursor,         \* per connection: number of channel messages broadcast_rx has passed
    fwd,            \* per connection: forward_task "none", "running", or why it ended
    received,       \* per connection: channel positions written to its socket, in order
    ended,          \* per connection: Len(chan) when its forward_task ended, else -1
    pending,        \* per caller: messages its running handler has still to send
    ops,            \* the inbound envelopes and control calls handled so far, in order
    clock,          \* SystemTime::now() in seconds, as last read
    returned,       \* what the control-surface call that returned last gave back
    pinned_transcription_clients,  \* ServerState.pinned_transcription_clients
    running,        \* ServerState.running
    port,           \* ServerState.port
    shutdown_tx,    \* ServerState.shutdown_tx: the task whose oneshot sender is stored
    task,           \* per start call: the background task it spawned
    call,           \* per caller of the host: its start or stop call in progress
    seg,            \* one call of parse_notepad_text: its input and its loop state
    sync_state,     \* SYNC_SERVER_STATE: the flag, mode, counter and cache
    sync_task,      \* the task start_sync_server spawned: "none", "serving", "exited"
    sync_chan,      \* every message sent on SYNC_SERVER_STATE.broadcast_tx, in order
    peer,           \* per sync connection: its handler, subscription and socket
    sync_call,      \* the broadcast_sync_message call in progress
    sync_ops,       \* the sync envelopes and sync commands handled so far, in order
    cache_log,      \* every value the sync cache has held, in order
    api_enabled,    \* ServerState.api_enabled
    http            \* what the HTTP route that answered last replied and emitted

vars == <<sessions, schedule, timer_state, display_state, chan, conn, sub,
          cursor, fwd, received, ended, pending, ops, clock, returned,
          pinned_transcription_clients, running, port, shutdown_tx, task, call,
          seg, sync_state, sync_task, sync_chan, peer, sync_call, sync_ops,
          cache_log, api_enabled, http>>

(***************************************************************************)
(* Bounds of the model.                                                    *)
(***************************************************************************)
\* broadcast::channel(100): the number of messages the channel retains.  The
\* model keeps the mechanism and scales the number down.
Capacity == 2
\* Messages sent on the channel in one behaviour.
MaxPub == 4
\* Envelopes and control calls handled in one behaviour.
MaxOps == 3
\* Largest value of the clock.
MaxClock == 1
\* Calls of start_live_slides_server that spawn a background task.
MaxStarts == 2
\* Calls of start_live_slides_server and stop_live_slides_server in one behaviour.
MaxCalls == 3
\* Characters of a text given to the segmentation.
MaxLen == 7

Conns == {"c1", "c2"}
Ui == "ui"
Host == "host"
\* The callers of the start and stop commands: the commands are async and two
\* invocations run side by side.
Hosts == {"h1", "h2"}
Callers == Conns \cup {Ui}
SessionIds == {"s1", "s2"}
Names == {"n1"}
TaskIds == 1 .. MaxStarts

None == <<>>
Some(v) == <<v>>

Last(s) == s[Len(s)]
Range(s) == {s[i] : i \in DOMAIN s}

(***************************************************************************)
(* Text primitives of the Rust standard library used by the segmentation.  *)
(***************************************************************************)
TAB == "\t"
NL == "\n"
SP == " "
FourSpaces == <<SP, SP, SP, SP>>

IsWhitespace(ch) == ch \in {SP, TAB}

\* str::lines(): split on "\n"; a final empty piece is not a line.
RECURSIVE SplitNL(_, _, _)
SplitNL(text, i, cur) ==
    IF i > Len(text) THEN <<cur>>
    ELSE IF text[i] = NL THEN <<cur>> \o SplitNL(text, i + 1, <<>>)
    ELSE SplitNL(text, i + 1, Append(cur, text[i]))

Lines(text) ==
    LET pieces == SplitNL(text, 1, <<>>)
    IN  IF Last(pieces) = <<>> THEN SubSeq(pieces, 1, Len(pieces) - 1) ELSE pieces

RECURSIVE TrimStart(_)
TrimStart(s) ==
    IF s # <<>> /\ IsWhitespace(Head(s)) THEN TrimStart(Tail(s)) ELSE s

RECURSIVE TrimEnd(_)
TrimEnd(s) ==
    IF s # <<>> /\ IsWhitespace(Last(s)) THEN TrimEnd(SubSeq(s, 1, Len(s) - 1)) ELSE s

\* A trim that removes nothing.
TrimNothing(s) == s

\* str::trim()
Trim(s) == TrimEnd(TrimStart(s))

StartsWith(s, p) == Len(s) >= Len(p) /\ SubSeq(s, 1, Len(p)) = p

\* str::trim_start_matches(p): removes every leading repetition of p.
RECURSIVE TrimStartMatches(_, _)
TrimStartMatches(s, p) ==
    IF StartsWith(s, p) THEN TrimStartMatches(SubSeq(s, Len(p) + 1, Len(s)), p) ELSE s

(***************************************************************************)
(* parse_notepad_text                                                      *)
(***************************************************************************)
SLIDE_COLORS == <<"#3B82F6", "#F59E0B", "#EC4899", "#10B981",
                  "#8B5CF6", "#EF4444", "#06B6D4", "#F97316">>

\* Every slide in the first color of the palette.
SlideColorFirst(color_index) == SLIDE_COLORS[1]

\* SLIDE_COLORS[color_index % SLIDE_COLORS.len()]
SlideColor(color_index) == SLIDE_COLORS[(color_index % Len(SLIDE_COLORS)) + 1]

LiveSlideItem(text, is_sub_item) == [text |-> text, is_sub_item |-> is_sub_item]
LiveSlide(items, color) == [items |-> items, color |-> color]

\* line.starts_with('\t') || line.starts_with("    ")
IsIndented(line) == StartsWith(line, <<TAB>>) \/ StartsWith(line, FourSpaces)

\* line.trim_start_matches('\t').trim_start_matches("    ").trim_start()
StripIndent(line) ==
    TrimStart(TrimStartMatches(TrimStartMatches(line, <<TAB>>), FourSpaces))

\* A look-ahead that takes the first indented line further down for a child,
\* whatever lies between.
CollectChildrenPastBare(lines, j, children) ==
    LET found == {m \in j .. Len(lines) :
                    IsIndented(lines[m]) /\ StripIndent(lines[m]) # <<>>}
    IN  IF found = {} THEN [children |-> children, j |-> j]
        ELSE LET m == CHOOSE x \in found : \A y \in found : x <= y
             IN  [children |-> Append(children, StripIndent(lines[m])), j |-> m + 1]

\* The look-ahead loop over j: the run of indented lines after the parent.
RECURSIVE CollectChildren(_, _, _)
CollectChildren(lines, j, children) ==
    IF j > Len(lines) THEN [children |-> children, j |-> j]
    ELSE IF Trim(lines[j]) = <<>> THEN [children |-> children, j |-> j]
    ELSE IF IsIndented(lines[j])
         THEN CollectChildren(lines, j + 1,
                  IF StripIndent(lines[j]) # <<>>
                  THEN Append(children, StripIndent(lines[j]))
                  ELSE children)
         ELSE [children |-> children, j |-> j]

\* A collection that takes the line at k and stops.
CollectBareSingle(lines, k, items) ==
    [items |-> Append(items, LiveSlideItem(Trim(lines[k]), FALSE)), k |-> k + 1]

\* The loop over k: the run of non-indented, non-blank lines from the parent on.
RECURSIVE CollectBare(_, _, _)
CollectBare(lines, k, items) ==
    IF k > Len(lines) THEN [items |-> items, k |-> k]
    ELSE IF Trim(lines[k]) = <<>> THEN [items |-> items, k |-> k]
    ELSE IF IsIndented(lines[k]) THEN [items |-> items, k |-> k]
    ELSE CollectBare(lines, k + 1,
             IF Trim(lines[k]) # <<>>
             THEN Append(items, LiveSlideItem(Trim(lines[k]), FALSE))
             ELSE items)

\* Child slides that all take the color after the parent's.
ChildSlidesOneColor(parent_text, children, color_index) ==
    [m \in 1 .. Len(children) |->
       LiveSlide(<<LiveSlideItem(parent_text, FALSE),
                   LiveSlideItem(children[m], TRUE)>>,
                 SlideColor(color_index))]

\* for child in children: one slide [parent, child] per child, one color each.
RECURSIVE ChildSlides(_, _, _)
ChildSlides(parent_text, children, color_index) ==
    IF children = <<>> THEN <<>>
    ELSE <<LiveSlide(<<LiveSlideItem(parent_text, FALSE),
                       LiveSlideItem(Head(children), TRUE)>>,
                     SlideColor(color_index))>>
         \o ChildSlides(parent_text, Tail(children), color_index + 1)

\* One iteration of the outer while loop at line i: the scan index, the color
\* index and the slides after it.
ParseIteration(lines, i, color_index, slides) ==
    LET line == lines[i] IN
    IF Trim(line) = <<>>
    THEN [i |-> i + 1, color_index |-> color_index, slides |-> slides]
    ELSE IF IsIndented(line) THEN
      IF StripIndent(line) # <<>>
      THEN [i |-> i + 1, color_index |-> color_index + 1,
            slides |-> Append(slides,
                          LiveSlide(<<LiveSlideItem(StripIndent(line), FALSE)>>,
                                    SlideColor(color_index)))]
      ELSE [i |-> i + 1, color_index |-> color_index, slides |-> slides]
    ELSE LET parent_text == Trim(line)
             look == CollectChildren(lines, i + 1, <<>>)
         IN
      IF look.children = <<>> THEN
        LET run == CollectBare(lines, i, <<>>) IN
        [i |-> run.k, color_index |-> color_index,
         slides |-> IF run.items # <<>>
                    THEN Append(slides, LiveSlide(run.items, SLIDE_COLORS[1]))
                    ELSE slides]
      ELSE
        [i |-> look.j, color_index |-> color_index + 1 + Len(look.children),
         slides |-> Append(slides, LiveSlide(<<LiveSlideItem(parent_text, FALSE)>>,
                                             SlideColor(color_index)))
                    \o ChildSlides(parent_text, look.children, color_index + 1)]

\* The outer while loop, from line i with the slides and color index so far.
RECURSIVE ParseLoop(_, _, _, _)
ParseLoop(lines, i, color_index, slides) ==
    IF i > Len(lines) THEN [slides |-> slides, color_index |-> color_index]
    ELSE LET after == ParseIteration(lines, i, color_index, slides)
         IN  ParseLoop(lines, after.i, after.color_index, after.slides)

\* A segmentation whose color index goes on from where earlier work left it.
parse_notepad_text_carried(text) == ParseLoop(Lines(text), 1, Len(chan), <<>>).slides

\* let mut color_index = 0; ... slides
parse_notepad_text(text) == ParseLoop(Lines(text), 1, 0, <<>>).slides

(***************************************************************************)
(* Inputs of the model.                                                    *)
(***************************************************************************)
TextHeading == <<"H", NL, TAB, "A">>
TextBare == <<"a", NL, "b">>
Texts == {TextHeading, TextBare}

ScheduleItem1 ==
    [id |-> 1, session |-> "Worship", start_time |-> "09:00", end_time |-> "09:30",
     duration |-> "30mins", minister |-> None]
Schedules == {<<>>, <<ScheduleItem1>>}
\* Option<usize> values offered to update_schedule.
Indexes == {None, Some(0), Some(1)}

DefaultTimerState ==
    [is_running |-> FALSE, time_left |-> 0, session_name |-> None,
     end_time |-> None, is_overrun |-> FALSE]
RunningTimerState ==
    [is_running |-> TRUE, time_left |-> 60, session_name |-> Some("Worship"),
     end_time |-> Some("09:30"), is_overrun |-> FALSE]
TimerStates == {DefaultTimerState, RunningTimerState}

DefaultDisplayState ==
    [scripture |-> [verse_text |-> "", reference |-> ""], slides |-> <<>>,
     settings |-> "{}"]
VerseDisplayState ==
    [scripture |-> [verse_text |-> "In the beginning", reference |-> "Gen 1:1"],
     slides |-> <<"Welcome">>, settings |-> "{\"font\":1}"]
DisplayStates == {DefaultDisplayState, VerseDisplayState}

\* A transcription_stream envelope as a browser sends it, with a field the
\* WsMessage enum does not declare.
TranscriptionEnvelope ==
    [type |-> "transcription_stream", kind |-> "final", timestamp |-> 1,
     engine |-> "web", text |-> "amen", speaker |-> "pastor"]

\* Inbound texts that do not decode: an unknown kind, a text_update without
\* its text, a join_session without its client_type, and text that is not a
\* JSON object with a type.
MalformedEnvelopes ==
    {[type |-> "no_such_kind"],
     [type |-> "text_update", session_id |-> "s1"],
     [type |-> "join_session", session_id |-> "s1"],
     [raw |-> "{"]}

\* An inbound text of the server-to-client vocabulary.
ServerEnvelopes == {[type |-> "error", message |-> "x"]}

\* A pre-serialized envelope handed to broadcast_live_slides_message.
RawMessages == {[type |-> "custom", payload |-> "x"]}

\* client_id values of a pin request: plain, padded, and blank.
PinClientIds == {<<"k">>, <<SP, "k">>, <<SP>>}

\* Bodies of the HTTP API: references, and durations counted in halves (a
\* half second, a second and a half beside two minutes, half a minute).
References == {<<"j">>, <<SP>>}
TimerBodies ==
    {[seconds |-> None, minutes |-> None], [seconds |-> Some(1), minutes |-> None],
     [seconds |-> Some(3), minutes |-> Some(4)], [seconds |-> None, minutes |-> Some(1)]}

(***************************************************************************)
(* WsMessage: serde's internally tagged decoding of an inbound text.       *)
(***************************************************************************)
\* The fields each variant must carry (Option fields may be absent).
RequiredFields ==
    [text_update |-> {"session_id", "text"},
     join_session |-> {"session_id", "client_type"},
     join_schedule |-> {},
     transcription_stream |-> {"kind", "timestamp", "engine", "text"},
     slides_update |-> {"session_id", "slides", "raw_text"},
     session_created |-> {"session"},
     session_deleted |-> {"session_id"},
     schedule_update |-> {"schedule"},
     timer_update |-> {"timer_state"},
     join_timer |-> {},
     join_display |-> {},
     display_update |-> {"scripture", "slides", "settings"},
     error |-> {"message"}]

OptionalFields(type) ==
    IF type = "transcription_stream"
    THEN {"segment", "scripture_references", "key_points"}
    ELSE IF type = "schedule_update" THEN {"currentSessionIndex"}
    ELSE {}

\* The variants the reader loop has an arm for.
ClientKinds ==
    {"text_update", "join_session", "join_schedule", "join_timer", "join_display",
     "transcription_stream"}

\* serde_json::from_str::<WsMessage>(text): None for an error, else the variant
\* with the fields the enum declares; fields it does not declare are ignored.
Decode(envelope) ==
    IF "type" \notin DOMAIN envelope THEN None
    ELSE IF envelope.type \notin DOMAIN RequiredFields THEN None
    ELSE IF ~(RequiredFields[envelope.type] \subseteq DOMAIN envelope) THEN None
    ELSE LET known == {"type"} \cup RequiredFields[envelope.type]
                        \cup OptionalFields(envelope.type)
         IN  Some([f \in known \cap DOMAIN envelope |-> envelope[f]])

\* A relay that serializes the decoded variant again.
TranscriptionForwardDecoded(envelope) == Decode(envelope)[1]

\* state.broadcast_tx.send(text.to_string()): the inbound text itself.
TranscriptionForward(envelope) == envelope

(***************************************************************************)
(* WsMessage variants the server serializes (serde_json::to_string).       *)
(***************************************************************************)
SlidesUpdate(session_id, slides, raw_text) ==
    [type |-> "slides_update", session_id |-> session_id, slides |-> slides,
     raw_text |-> raw_text]
SessionCreated(session) == [type |-> "session_created", session |-> session]
SessionDeleted(session_id) == [type |-> "session_deleted", session_id |-> session_id]
ScheduleUpdate(items, current_session_index) ==
    [type |-> "schedule_update", schedule |-> items,
     currentSessionIndex |-> current_session_index]
TimerUpdate(ts) == [type |-> "timer_update", timer_state |-> ts]
DisplayUpdate(scripture, slides, settings) ==
    [type |-> "display_update", scripture |-> scripture, slides |-> slides,
     settings |-> settings]

LiveSlideSession(id, name, slides, raw_text, created_at) ==
    [id |-> id, name |-> name, slides |-> slides, raw_text |-> raw_text,
     created_at |-> created_at]

(***************************************************************************)
(* SyncMessage: the envelopes of the sync relay, decoded and encoded.      *)
(***************************************************************************)
\* server_id: uuid::Uuid::new_v4(), fixed for the life of the process.
ServerId == "server-1"
\* mode values handed to start_sync_server.
SyncModes == {"master", "peer"}
\* An opaque playlists value (serde_json::Value).
Playlists1 == "[{\"id\":\"p1\"}]"

\* #[serde(rename = "...")]: the name a field of SyncMessage has on the wire.
WireName(field) ==
    CASE field = "playlist_id" -> "playlistId"
      [] field = "item_id" -> "itemId"
      [] field = "current_session_index" -> "currentSessionIndex"
      [] field = "request_playlists" -> "requestPlaylists"
      [] field = "request_schedule" -> "requestSchedule"
      [] field = "client_mode" -> "clientMode"
      [] field = "client_id" -> "clientId"
      [] field = "server_id" -> "serverId"
      [] field = "server_mode" -> "serverMode"
      [] field = "connected_clients" -> "connectedClients"
      [] OTHER -> field

\* The fields of each variant that are not an Option: an envelope without one
\* of them does not decode.
SyncFields ==
    [sync_playlist_item |-> {"playlist_id", "item", "action", "timestamp"},
     sync_playlist_delete |-> {"playlist_id", "item_id", "timestamp"},
     sync_schedule |-> {"schedule", "timestamp"},
     sync_request_state |-> {"request_playlists", "request_schedule"},
     sync_full_state |-> {"timestamp"},
     sync_join |-> {"client_mode", "client_id"},
     sync_welcome |-> {"server_id", "server_mode", "connected_clients"},
     sync_error |-> {"message"}]

\* The Option fields of each variant: absent on the wire, they decode to None.
SyncOptionFields(type) ==
    IF type = "sync_schedule" THEN {"current_session_index"}
    ELSE IF type = "sync_full_state"
         THEN {"playlists", "schedule", "current_session_index"}
         ELSE {}

\* serde_json::from_str::<SyncMessage>(text): None for an error, else the
\* variant with exactly the fields the enum declares.
SyncDecode(envelope) ==
    IF "type" \notin DOMAIN envelope THEN None
    ELSE IF envelope.type \notin DOMAIN SyncFields THEN None
    ELSE IF \E f \in SyncFields[envelope.type] : WireName(f) \notin DOMAIN envelope
         THEN None
    ELSE Some([f \in {"type"} \cup SyncFields[envelope.type]
                       \cup SyncOptionFields(envelope.type) |->
                 IF WireName(f) \in DOMAIN envelope THEN envelope[WireName(f)]
                 ELSE None])

\* serde_json::to_string(&sync_msg): every field of the variant under its wire
\* name, an Option that is None as null.
SyncEncode(msg) ==
    [w \in {WireName(f) : f \in DOMAIN msg} |->
       msg[CHOOSE f \in DOMAIN msg : WireName(f) = w]]

\* SyncMessage::Welcome { server_id, server_mode, connected_clients }
Welcome(server_mode, connected) ==
    [type |-> "sync_welcome", server_id |-> ServerId, server_mode |-> server_mode,
     connected_clients |-> connected]

\* SyncMessage::FullState { playlists, schedule, current_session_index, timestamp }
FullState(playlists, schedule_, current_idx, timestamp) ==
    [type |-> "sync_full_state", playlists |-> playlists, schedule |-> schedule_,
     current_session_index |-> current_idx, timestamp |-> timestamp]

\* Envelopes a peer sends.
SyncJoinEnvelope == [type |-> "sync_join", clientMode |-> "slave", clientId |-> "k"]
RequestStateEnvelopes ==
    {[type |-> "sync_request_state", requestPlaylists |-> rp, requestSchedule |-> rs] :
       rp \in BOOLEAN, rs \in BOOLEAN}
\* sync_request_state with one flag, and with both flags, left out.
RequestStateOmitted ==
    {[type |-> "sync_request_state", requestSchedule |-> TRUE],
     [type |-> "sync_request_state"]}
SyncScheduleEnvelope ==
    [type |-> "sync_schedule", schedule |-> <<ScheduleItem1>>,
     currentSessionIndex |-> Some(0), timestamp |-> 1]
\* Envelopes of the four relayed kinds: complete ones, a sync_schedule without
\* its optional index, and a sync_schedule with a field the enum does not
\* declare.
RelayEnvelopes ==
    {SyncScheduleEnvelope,
     [type |-> "sync_schedule", schedule |-> <<>>, timestamp |-> 1],
     [type |-> "sync_schedule", schedule |-> <<ScheduleItem1>>,
      currentSessionIndex |-> Some(0), timestamp |-> 1, origin |-> "k"],
     [type |-> "sync_full_state", playlists |-> Some(Playlists1),
      schedule |-> Some(<<ScheduleItem1>>), currentSessionIndex |-> Some(0),
      timestamp |-> 1],
     [type |-> "sync_playlist_item", playlistId |-> "p1", item |-> "{}",
      action |-> "create", timestamp |-> 1],
     [type |-> "sync_playlist_delete", playlistId |-> "p1", itemId |-> "i1",
      timestamp |-> 1]}
\* An inbound text of no kind the enum knows, and inbound texts of the kinds
\* the server itself sends.
SyncUnknownEnvelope == [type |-> "sync_no_such_kind"]
SyncServerEnvelopes == {[type |-> "sync_error", message |-> "x"]}
\* Messages the control surface hands to broadcast_sync_message.
SyncCommandMessages ==
    {SyncScheduleEnvelope,
     [type |-> "sync_full_state", playlists |-> Some(Playlists1), schedule |-> None,
      currentSessionIndex |-> None, timestamp |-> 1],
     [type |-> "sync_playlist_delete", playlistId |-> "p1", itemId |-> "i1",
      timestamp |-> 1]}

(***************************************************************************)
(* Store and channel helpers.                                              *)
(***************************************************************************)
\* HashMap::insert
Insert(map, key, value) ==
    [k \in (DOMAIN map) \cup {key} |-> IF k = key THEN value ELSE map[k]]
\* HashMap::remove
Remove(map, key) == [k \in (DOMAIN map) \ {key} |-> map[k]]

RECURSIVE SumLen(_, _)
SumLen(f, S) ==
    IF S = {} THEN 0
    ELSE LET x == CHOOSE y \in S : TRUE IN Len(f[x]) + SumLen(f, S \ {x})

\* Sends the bound MaxPub still allows, beyond those already queued.
Budget == MaxPub - Len(chan) - SumLen(pending, Callers)

\* The envelopes and data commands among the operations, and the start and
\* stop calls among them.
HubOps == SelectSeq(ops, LAMBDA o : o.who # Host)
HostOps == SelectSeq(ops, LAMBDA o : o.who = Host)

CanStart(who, n) ==
    /\ pending[who] = <<>>
    /\ Len(HubOps) < MaxOps
    /\ n <= Budget

Op(who, kind, arg, existed, out) ==
    [who |-> who, kind |-> kind, arg |-> arg, existed |-> existed, out |-> out,
     at |-> Len(chan)]

\* The control surface calls among the operations, in call order.
IsUiOp(o) == o.who = Ui
UiOps == SelectSeq(ops, IsUiOp)

\* The live receivers of the channel: each is owned by a running forward_task.
Receivers == {c \in Conns : fwd[c] = "running"}

\* broadcast::Sender::send: an error when no receiver is alive.
SendResult == IF Receivers = {} THEN "Err" ELSE "Ok"

\* `let _ = state.broadcast_tx.send(json);` ... `Ok(..)`
ResultIgnoringSend(send_result) == "Ok"

\* `.send(message).map_err(|e| format!("Failed to broadcast: {}", e))?; Ok(())`
ResultOfSend(send_result) ==
    IF send_result = "Err" THEN "Failed to broadcast" ELSE "Ok"

\* What a control-surface call gives back, with the receivers alive at its send.
Return(kind, value) ==
    Some([kind |-> kind, value |-> value, receivers |-> Cardinality(Receivers)])

\* A background task that no start call has spawned yet.
NoTask == [state |-> "none", port |-> 0, signal |-> "none"]
\* No start or stop call is in progress.
NoCall == [kind |-> "none"]
\* No call of parse_notepad_text has begun: its input is still being written.
NoParse ==
    [pc |-> "input", text |-> <<>>, lines |-> <<>>, i |-> 1, color_index |-> 0,
     slides |-> <<>>]

\* A sync connection's handler between two inbound messages, a sync
\* connection not yet accepted, and no broadcast_sync_message call in progress.
NoWork == [pc |-> "idle"]
NewPeer ==
    [state |-> "new", sub |-> 0, cursor |-> 0, fwd |-> "none", socket |-> <<>>,
     socket_ok |-> TRUE, work |-> NoWork]
NoSyncCall == [pc |-> "none"]

\* The cache of the sync relay: the three fields a FullState is built from.
Cache ==
    [playlists |-> sync_state.playlists, schedule |-> sync_state.schedule,
     current_session_index |-> sync_state.current_session_index]

\* The start and stop calls among the sync operations, and the others.
SyncHostOps == SelectSeq(sync_ops, LAMBDA o : o.kind \in {"start", "stop"})
SyncDataOps == SelectSeq(sync_ops, LAMBDA o : o.kind \notin {"start", "stop"})

\* Handlers and calls of the sync relay that have begun and not finished.
SyncBusy ==
    Cardinality({c \in Conns : peer[c].work # NoWork})
      + (IF sync_call # NoSyncCall THEN 1 ELSE 0)

CanSync == Len(SyncDataOps) + SyncBusy < MaxOps

\* One handled operation: what came in, what was sent, the cache values it
\* could see (positions from .. to of cache_log) and how many operations were
\* complete when it began.
SyncOp(who, kind, envelope, out, from) ==
    [who |-> who, kind |-> kind, envelope |-> envelope, out |-> out,
     at |-> Len(sync_chan), from |-> from, to |-> Len(cache_log),
     begun |-> Len(sync_ops)]

\* The live receivers of the sync channel: subscribed in the handler, moved
\* into its forward_task, dropped when the task ends.
SyncReceivers ==
    {c \in Conns : peer[c].state = "accepted" \/ peer[c].fwd = "running"}

Init ==
    /\ sessions = <<>>
    /\ schedule = [schedule |-> <<>>, current_session_index |-> None]
    /\ timer_state = DefaultTimerState
    /\ display_state = DefaultDisplayState
    /\ chan = <<>>
    /\ conn = [c \in Conns |-> "new"]
    /\ sub = [c \in Conns |-> 0]
    /\ cursor = [c \in Conns |-> 0]
    /\ fwd = [c \in Conns |-> "none"]
    /\ received = [c \in Conns |-> <<>>]
    /\ ended = [c \in Conns |-> -1]
    /\ pending = [p \in Callers |-> <<>>]
    /\ ops = <<>>
    /\ clock = 0
    /\ returned = None
    /\ pinned_transcription_clients = <<>>
    /\ running = FALSE
    /\ port = 9876
    /\ shutdown_tx = None
    /\ task = [k \in TaskIds |-> NoTask]
    /\ call = [w \in Hosts |-> NoCall]
    /\ seg = NoParse
    /\ sync_state = [running |-> FALSE, port |-> 9877, server_mode |-> "master",
                     connected_clients |-> 0, playlists |-> None,
                     schedule |-> None, current_session_index |-> None]
    /\ sync_task = "none"
    /\ sync_chan = <<>>
    /\ peer = [c \in Conns |-> NewPeer]
    /\ sync_call = NoSyncCall
    /\ sync_ops = <<>>
    /\ cache_log = <<[playlists |-> None, schedule |-> None,
                      current_session_index |-> None]>>
    /\ api_enabled = FALSE
    /\ http = None

store == <<sessions, schedule, timer_state, display_state>>
links == <<conn, sub, cursor, fwd, received, ended>>
lifecycle == <<running, port, shutdown_tx, task, call>>
\* The gate of the HTTP API and the reply of its routes.
web == <<api_enabled, http>>
\* What the handlers of the hub's messages and commands never touch.
sync == <<sync_state, sync_task, sync_chan, peer, sync_call, sync_ops, cache_log>>
\* What the sync relay never touches: the presentation hub and its server.
hub == <<store, chan, links, pending, ops, clock, returned,
         pinned_transcription_clients, lifecycle, seg, web>>
elsewhere == <<pinned_transcription_clients, lifecycle, seg, sync, web>>

(***************************************************************************)
(* handle_ws_connection: subscription, forward_task, reader loop.          *)
(***************************************************************************)
\* ws.split(); state.broadcast_tx.subscribe(); tokio::spawn(forward_task)
Connect(c) ==
    /\ conn[c] = "new"
    /\ conn' = [conn EXCEPT ![c] = "open"]
    /\ sub' = [sub EXCEPT ![c] = Len(chan)]
    /\ cursor' = [cursor EXCEPT ![c] = Len(chan)]
    /\ fwd' = [fwd EXCEPT ![c] = "running"]
    /\ UNCHANGED <<store, chan, received, ended, pending, ops, clock, returned,
                   elsewhere>>

\* The receiver is more than the channel's capacity behind: its oldest unread
\* message has been overwritten and recv() returns Err(Lagged).
Lagging(c) == Len(chan) - cursor[c] > Capacity

\* A receiver that hands out the newest message instead of the oldest unread one.
RecvIndexNewest(c) == Len(chan)

\* broadcast_rx.recv() returning Ok(msg): the oldest message not yet passed.
RecvIndex(c) == cursor[c] + 1

\* A receiver that steps over a message on every recv().
CursorAfterRecvSkip(c) == cursor[c] + 2

\* The receiver's position after a successful recv().
CursorAfterRecv(c) == cursor[c] + 1

\* What `while let Ok(msg) = broadcast_rx.recv().await` does with Err(Lagged):
\* the pattern does not match and the loop, hence the task, ends.
ForwardAfterLagged == "lagged"

\* One iteration of the forward_task loop.
Forward(c) ==
    /\ fwd[c] = "running"
    /\ cursor[c] < Len(chan)
    /\ IF Lagging(c)
       THEN /\ fwd' = [fwd EXCEPT ![c] = ForwardAfterLagged]
            /\ cursor' = [cursor EXCEPT ![c] = Len(chan) - Capacity]
            /\ ended' = [ended EXCEPT ![c] = Len(chan)]
            /\ UNCHANGED received
       ELSE /\ cursor' = [cursor EXCEPT ![c] = CursorAfterRecv(c)]
            /\ \E sent \in BOOLEAN :
                 IF sent
                 THEN /\ received' = [received EXCEPT ![c] = Append(@, RecvIndex(c))]
                      /\ UNCHANGED <<fwd, ended>>
                 ELSE /\ fwd' = [fwd EXCEPT ![c] = "send_failed"]
                      /\ ended' = [ended EXCEPT ![c] = Len(chan)]
                      /\ UNCHANGED received
    /\ UNCHANGED <<store, chan, conn, sub, pending, ops, clock, returned, elsewhere>>

\* An abort that takes every connection's forwarder down.
FwdAfterAbortAll(c) ==
    [d \in Conns |-> IF fwd[d] = "running" THEN "aborted" ELSE fwd[d]]

\* forward_task.abort(): the handler aborts the task it spawned itself.
FwdAfterAbort(c) == [fwd EXCEPT ![c] = IF @ = "running" THEN "aborted" ELSE @]

\* ws_receiver.next() returns None: the reader loop ends, forward_task.abort().
Disconnect(c) ==
    /\ conn[c] = "open"
    /\ pending[c] = <<>>
    /\ conn' = [conn EXCEPT ![c] = "closed"]
    /\ fwd' = FwdAfterAbort(c)
    /\ ended' = [ended EXCEPT ![c] = IF fwd[c] = "running" THEN Len(chan) ELSE @]
    /\ UNCHANGED <<store, chan, sub, cursor, received, pending, ops, clock, returned,
                   elsewhere>>

\* state.broadcast_tx.send(json) of a handler that released its lock first.
\* After its last send a command of the control surface returns Ok.
Send(p) ==
    /\ pending[p] # <<>>
    /\ chan' = Append(chan, Head(pending[p]))
    /\ pending' = [pending EXCEPT ![p] = Tail(@)]
    /\ returned' = IF p = Ui /\ Len(pending[p]) = 1
                   THEN Return(Last(UiOps).kind, ResultIgnoringSend(SendResult))
                   ELSE returned
    /\ UNCHANGED <<store, links, ops, clock, elsewhere>>

\* A handler that stores the new slides and forgets the raw text.
TextUpdateSessionSlidesOnly(session, slides, text) ==
    [session EXCEPT !.slides = slides]

\* session.slides = slides.clone(); session.raw_text = text.clone();
TextUpdateSession(session, slides, text) ==
    [session EXCEPT !.slides = slides, !.raw_text = text]

\* A handler that announces the slides without the text they came from.
TextUpdateEventNoText(session_id, slides, text) ==
    SlidesUpdate(session_id, slides, <<>>)

\* WsMessage::SlidesUpdate { session_id, slides, raw_text: text }
TextUpdateEvent(session_id, slides, text) == SlidesUpdate(session_id, slides, text)

\* A handler that makes the session when the store does not hold it.
TextUpdateSessionsInsert(session_id, slides, text) ==
    Insert(sessions, session_id,
           IF session_id \in DOMAIN sessions
           THEN TextUpdateSession(sessions[session_id], slides, text)
           ELSE LiveSlideSession(session_id, <<>>, slides, text, clock))

\* if let Some(session) = sessions.get_mut(&session_id) { ... }: no else.
TextUpdateSessions(session_id, slides, text) ==
    IF session_id \in DOMAIN sessions
    THEN [sessions EXCEPT ![session_id] = TextUpdateSession(@, slides, text)]
    ELSE sessions

\* WsMessage::TextUpdate: parse, write the session if it exists, then broadcast.
TextUpdate(c, session_id, text) ==
    LET slides == parse_notepad_text(text) IN
    /\ conn[c] = "open"
    /\ CanStart(c, 1)
    /\ sessions' = TextUpdateSessions(session_id, slides, text)
    /\ pending' = [pending EXCEPT ![c] = <<TextUpdateEvent(session_id, slides, text)>>]
    /\ ops' = Append(ops, Op(c, "text_update",
                             [session_id |-> session_id, text |-> text],
                             session_id \in DOMAIN sessions,
                             <<TextUpdateEvent(session_id, slides, text)>>))
    /\ UNCHANGED <<schedule, timer_state, display_state, chan, links, clock, returned,
                   elsewhere>>

\* The snapshot JoinSession builds from the stored session.
SessionSnapshot(session_id) ==
    SlidesUpdate(session_id, sessions[session_id].slides, sessions[session_id].raw_text)

\* A join arm: the snapshot is built and sent while the entity's read lock is held.
Reply(c, kind, arg, existed, out) ==
    /\ CanStart(c, Len(out))
    /\ chan' = chan \o out
    /\ ops' = Append(ops, Op(c, kind, arg, existed, out))
    /\ UNCHANGED <<store, links, pending, clock, returned, elsewhere>>

\* WsMessage::JoinSession
JoinSession(c, session_id) ==
    /\ conn[c] = "open"
    /\ Reply(c, "join_session", [session_id |-> session_id],
             session_id \in DOMAIN sessions,
             IF session_id \in DOMAIN sessions
             THEN <<SessionSnapshot(session_id)>> ELSE <<>>)

\* A join that answers with an empty schedule instead of the stored one.
ScheduleSnapshotEmpty == ScheduleUpdate(<<>>, None)

\* The snapshots of the three single-record topics.
ScheduleSnapshot == ScheduleUpdate(schedule.schedule, schedule.current_session_index)
TimerSnapshot == TimerUpdate(timer_state)
DisplaySnapshot ==
    DisplayUpdate(display_state.scripture, display_state.slides, display_state.settings)

\* WsMessage::JoinSchedule
JoinSchedule(c) ==
    /\ conn[c] = "open"
    /\ Reply(c, "join_schedule", <<>>, TRUE, <<ScheduleSnapshot>>)
\* WsMessage::JoinTimer
JoinTimer(c) ==
    /\ conn[c] = "open"
    /\ Reply(c, "join_timer", <<>>, TRUE, <<TimerSnapshot>>)
\* WsMessage::JoinDisplay
JoinDisplay(c) ==
    /\ conn[c] = "open"
    /\ Reply(c, "join_display", <<>>, TRUE, <<DisplaySnapshot>>)

\* WsMessage::TranscriptionStream: the inbound text itself is sent on.
TranscriptionStream(c, envelope) ==
    /\ conn[c] = "open"
    /\ Decode(envelope) # None
    /\ envelope.type = "transcription_stream"
    /\ Reply(c, "transcription_stream", envelope, TRUE,
             <<TranscriptionForward(envelope)>>)

\* A reader loop that gives the connection up on a decode error.
AfterDecodeErrorClose == "closed"

\* if let Ok(ws_msg) = serde_json::from_str(text) has no else branch: the
\* reader loop goes on to the next message.
AfterDecodeError == "open"

\* An inbound message that is not text or does not decode to a WsMessage.
DropInbound(c, envelope) ==
    /\ conn[c] = "open"
    /\ pending[c] = <<>>
    /\ Len(HubOps) < MaxOps
    /\ Decode(envelope) = None
    /\ conn' = [conn EXCEPT ![c] = AfterDecodeError]
    /\ ops' = Append(ops, Op(c, "dropped", envelope, FALSE, <<>>))
    /\ UNCHANGED <<store, chan, sub, cursor, fwd, received, ended, pending, clock,
                   returned, elsewhere>>

\* The `_ => {}` arm: a WsMessage of the server-to-client vocabulary.
IgnoreInbound(c, envelope) ==
    /\ conn[c] = "open"
    /\ pending[c] = <<>>
    /\ Len(HubOps) < MaxOps
    /\ Decode(envelope) # None
    /\ envelope.type \notin ClientKinds
    /\ ops' = Append(ops, Op(c, "ignored", envelope, FALSE, <<>>))
    /\ UNCHANGED <<store, chan, links, pending, clock, returned, elsewhere>>

(***************************************************************************)
(* Control surface (tauri commands on SERVER_STATE).  Each command writes  *)
(* the store under its lock, releases it, and then sends its events.       *)
(***************************************************************************)
\* SystemTime::now(): the clock never runs backwards.
Now(now) == now \in clock .. (IF clock < MaxClock THEN clock + 1 ELSE clock)

\* create_live_slide_session
create_live_slide_session(name) ==
    \E session_id \in SessionIds \ DOMAIN sessions, now \in 0 .. MaxClock :
      LET session == LiveSlideSession(session_id, name, <<>>, <<>>, now) IN
      /\ Now(now)
      /\ CanStart(Ui, 1)
      /\ clock' = now
      /\ sessions' = Insert(sessions, session_id, session)
      /\ pending' = [pending EXCEPT ![Ui] = <<SessionCreated(session)>>]
      /\ ops' = Append(ops, Op(Ui, "create", [name |-> name], FALSE,
                               <<SessionCreated(session)>>))
      /\ UNCHANGED <<schedule, timer_state, display_state, chan, links, returned,
                     elsewhere>>

\* An upsert that takes every session for a new one.
UpsertIsNewAlways(session_id) == TRUE

\* let is_new = !sessions.contains_key(&session_id);
UpsertIsNew(session_id) == session_id \notin DOMAIN sessions

\* An upsert that stamps the session with the time of the call.
UpsertCreatedAtNow(session_id, now) == now

\* sessions.get(&session_id).map(|s| s.created_at).unwrap_or(now)
UpsertCreatedAt(session_id, now) ==
    IF session_id \in DOMAIN sessions THEN sessions[session_id].created_at ELSE now

\* The events upsert_live_slide_session sends after dropping the lock.
UpsertEvents(session, is_new) ==
    (IF is_new THEN <<SessionCreated(session)>> ELSE <<>>)
    \o <<SlidesUpdate(session.id, session.slides, session.raw_text)>>

\* upsert_live_slide_session
upsert_live_slide_session(session_id, name, raw_text) ==
    \E now \in 0 .. MaxClock :
      LET slides == parse_notepad_text(raw_text)
          is_new == UpsertIsNew(session_id)
          session == LiveSlideSession(session_id, name, slides, raw_text,
                                      UpsertCreatedAt(session_id, now))
          out == UpsertEvents(session, is_new)
      IN
      /\ Now(now)
      /\ CanStart(Ui, Len(out))
      /\ clock' = now
      /\ sessions' = Insert(sessions, session_id, session)
      /\ pending' = [pending EXCEPT ![Ui] = out]
      /\ ops' = Append(ops, Op(Ui, "upsert",
                               [session_id |-> session_id, name |-> name,
                                raw_text |-> raw_text, ret |-> session],
                               session_id \in DOMAIN sessions, out))
      /\ UNCHANGED <<schedule, timer_state, display_state, chan, links, returned,
                     elsewhere>>

\* delete_live_slide_session
delete_live_slide_session(session_id) ==
    /\ CanStart(Ui, 1)
    /\ sessions' = Remove(sessions, session_id)
    /\ pending' = [pending EXCEPT ![Ui] = <<SessionDeleted(session_id)>>]
    /\ ops' = Append(ops, Op(Ui, "delete", [session_id |-> session_id],
                             session_id \in DOMAIN sessions,
                             <<SessionDeleted(session_id)>>))
    /\ UNCHANGED <<schedule, timer_state, display_state, chan, links, clock, returned,
                   elsewhere>>

\* schedule_state.current_session_index = current_session_index;
StoredIndex(items, current_session_index) == current_session_index

\* update_schedule
update_schedule(items, current_session_index) ==
    /\ CanStart(Ui, 1)
    /\ schedule' = [schedule |-> items,
                    current_session_index |-> StoredIndex(items, current_session_index)]
    /\ pending' = [pending EXCEPT ![Ui] = <<ScheduleUpdate(items, current_session_index)>>]
    /\ ops' = Append(ops, Op(Ui, "update_schedule",
                             [schedule |-> items,
                              current_session_index |-> current_session_index],
                             TRUE, <<ScheduleUpdate(items, current_session_index)>>))
    /\ UNCHANGED <<sessions, timer_state, display_state, chan, links, clock, returned,
                   elsewhere>>

\* update_timer_state
update_timer_state(ts) ==
    /\ CanStart(Ui, 1)
    /\ timer_state' = [is_running |-> ts.is_running, time_left |-> ts.time_left,
                       session_name |-> ts.session_name, end_time |-> ts.end_time,
                       is_overrun |-> ts.is_overrun]
    /\ pending' = [pending EXCEPT ![Ui] = <<TimerUpdate(ts)>>]
    /\ ops' = Append(ops, Op(Ui, "update_timer", ts, TRUE, <<TimerUpdate(ts)>>))
    /\ UNCHANGED <<sessions, schedule, display_state, chan, links, clock, returned,
                   elsewhere>>

\* update_display_state
update_display_state(ds) ==
    /\ CanStart(Ui, 1)
    /\ display_state' = [scripture |-> [verse_text |-> ds.scripture.verse_text,
                                        reference |-> ds.scripture.reference],
                         slides |-> ds.slides, settings |-> ds.settings]
    /\ pending' = [pending EXCEPT
                     ![Ui] = <<DisplayUpdate(ds.scripture, ds.slides, ds.settings)>>]
    /\ ops' = Append(ops, Op(Ui, "update_display", ds, TRUE,
                             <<DisplayUpdate(ds.scripture, ds.slides, ds.settings)>>))
    /\ UNCHANGED <<sessions, schedule, timer_state, chan, links, clock, returned,
                   elsewhere>>

\* broadcast_live_slides_message: the running check, then one send whose error
\* is handed to the caller.
broadcast_live_slides_message(message) ==
    LET value == IF running THEN ResultOfSend(SendResult)
                 ELSE "Live Slides server is not running"
        out == IF running THEN <<message>> ELSE <<>>
    IN
    /\ CanStart(Ui, 1)
    /\ chan' = chan \o out
    /\ ops' = Append(ops, Op(Ui, "broadcast", [message |-> message, ret |-> value],
                             running, out))
    /\ returned' = Return("broadcast", value)
    /\ UNCHANGED <<store, links, pending, clock, elsewhere>>

\* json_response(value, status), with what app.emit handed to the front end.
HttpReply(status, value, emitted) ==
    Some([status |-> status, body |-> value, emitted |-> emitted])

\* POST /api/transcription/pin of the HTTP layer.
transcription_pin(client_id, label) ==
    \E now \in 0 .. MaxClock :
      /\ Now(now)
      /\ IF Trim(client_id) = <<>>
         THEN /\ http' = HttpReply(400, [error |-> "client_id_required"], None)
              /\ UNCHANGED <<clock, pinned_transcription_clients>>
         ELSE /\ clock' = now
              /\ pinned_transcription_clients' =
                   Insert(pinned_transcription_clients, Trim(client_id),
                          [client_id |-> Trim(client_id), label |-> label,
                           pinned_at |-> now])
              /\ http' = HttpReply(200, [status |-> "pinned",
                                         clientId |-> Trim(client_id),
                                         label |-> label, pinnedAt |-> now], None)
      /\ UNCHANGED <<api_enabled, sync, store, chan, links, pending, ops, returned,
                     lifecycle, seg>>

\* GET /api/schedule
schedule_api_route ==
    /\ http' = HttpReply(200, [schedule |-> schedule.schedule,
                               currentSessionIndex |-> schedule.current_session_index],
                         None)
    /\ UNCHANGED <<api_enabled, sync, store, chan, links, pending, ops, clock, returned,
                   pinned_transcription_clients, lifecycle, seg>>

\* GET /api/live-slides: the sessions of the map, in the map's own order.
live_slides_api_route ==
    /\ http' = HttpReply(200, [sessions |-> {sessions[id] : id \in DOMAIN sessions},
                               server_running |-> TRUE], None)
    /\ UNCHANGED <<api_enabled, sync, store, chan, links, pending, ops, clock, returned,
                   pinned_transcription_clients, lifecycle, seg>>

\* POST /api/v1/scripture/go-live: the gate, the reference, then app.emit.
api_scripture_route(reference) ==
    /\ \E emit_ok \in BOOLEAN :
         http' = IF ~api_enabled THEN HttpReply(403, [error |-> "api_disabled"], None)
                 ELSE IF Trim(reference) = <<>>
                 THEN HttpReply(400, [error |-> "reference_required"], None)
                 ELSE IF ~emit_ok THEN HttpReply(500, [error |-> "emit_failed"], None)
                 ELSE HttpReply(200, [status |-> "queued", reference |-> Trim(reference)],
                                Some([event |-> "api-scripture-go-live",
                                      reference |-> Trim(reference)]))
    /\ UNCHANGED <<api_enabled, sync, store, chan, links, pending, ops, clock, returned,
                   pinned_transcription_clients, lifecycle, seg>>

\* body.seconds.or_else(|| body.minutes.map(|m| m * 60.0)).unwrap_or(0.0), the
\* numbers counted in halves.
RawSeconds(body) ==
    IF body.seconds # None THEN body.seconds[1]
    ELSE IF body.minutes # None THEN body.minutes[1] * 60
    ELSE 0

\* raw_seconds.floor() as i64, of a positive number of halves.
FloorSeconds(raw_seconds) == raw_seconds \div 2

\* POST /api/v1/timer/start: the gate, the duration, then app.emit.
api_timer_route(body) ==
    /\ \E emit_ok \in BOOLEAN :
         http' = IF ~api_enabled THEN HttpReply(403, [error |-> "api_disabled"], None)
                 ELSE IF RawSeconds(body) <= 0 \/ FloorSeconds(RawSeconds(body)) <= 0
                 THEN HttpReply(400, [error |-> "seconds_required"], None)
                 ELSE IF ~emit_ok THEN HttpReply(500, [error |-> "emit_failed"], None)
                 ELSE HttpReply(200, [status |-> "queued",
                                      seconds |-> FloorSeconds(RawSeconds(body))],
                                Some([event |-> "api-timer-start",
                                      seconds |-> FloorSeconds(RawSeconds(body))]))
    /\ UNCHANGED <<api_enabled, sync, store, chan, links, pending, ops, clock, returned,
                   pinned_transcription_clients, lifecycle, seg>>

\* The routes that serve an embedded file, or 404 when there is none.
static_route ==
    /\ \E found \in BOOLEAN :
         http' = IF found THEN HttpReply(200, "file", None)
                 ELSE HttpReply(404, "Not Found", None)
    /\ UNCHANGED <<api_enabled, sync, store, chan, links, pending, ops, clock, returned,
                   pinned_transcription_clients, lifecycle, seg>>

\* set_api_enabled
set_api_enabled(enabled) ==
    /\ api_enabled' = enabled
    /\ UNCHANGED <<http, sync, store, chan, links, pending, ops, clock, returned,
                   pinned_transcription_clients, lifecycle, seg>>

(***************************************************************************)
(* Server lifecycle: start_live_slides_server, the background task it      *)
(* spawns (run_combined_server) and stop_live_slides_server.  Each caller  *)
(* of the host has at most one call in progress.                           *)
(***************************************************************************)
FreeTasks == {k \in TaskIds : task[k].state = "none"}
\* The calls that have begun and not returned, and those among them that
\* have passed the running check and not spawned their task yet.
CallsInProgress == Cardinality({w \in Hosts : call[w] # NoCall})
StartsToSpawn ==
    Cardinality({w \in Hosts : call[w].kind = "start" /\ call[w].pc = "checked"})
NextTask == CHOOSE k \in FreeTasks : \A j \in FreeTasks : k <= j

\* if *state.running.read().await { return Err("Server is already running") }
start_check(w, p) ==
    /\ call[w] = NoCall
    /\ Len(HostOps) + CallsInProgress < MaxCalls
    /\ IF running
       THEN /\ ops' = Append(ops, Op(Host, "start",
                                     [port |-> p, ret |-> "Server is already running",
                                      task |-> 0],
                                     TRUE, <<>>))
            /\ UNCHANGED call
       ELSE /\ Cardinality(FreeTasks) > StartsToSpawn
            /\ call' = [call EXCEPT ![w] = [kind |-> "start", pc |-> "checked",
                                            port |-> p, task |-> 0]]
            /\ UNCHANGED ops
    /\ UNCHANGED <<web, sync, store, chan, links, pending, clock, returned,
                   pinned_transcription_clients, running, port, shutdown_tx, task,
                   seg>>

\* running = true; port = port; tokio::spawn(run_combined_server ...)
start_spawn(w) ==
    /\ call[w].kind = "start"
    /\ call[w].pc = "checked"
    /\ running' = TRUE
    /\ port' = call[w].port
    /\ task' = [task EXCEPT ![NextTask] =
                  [state |-> "spawned", port |-> call[w].port, signal |-> "none"]]
    /\ call' = [call EXCEPT ![w].pc = "sleeping", ![w].task = NextTask]
    /\ UNCHANGED <<web, sync, store, chan, links, pending, ops, clock, returned,
                   pinned_transcription_clients, shutdown_tx, seg>>

\* sleep(100 ms); Ok(format!("http://{}:{}", local_ip, port))
start_return(w) ==
    /\ call[w].kind = "start"
    /\ call[w].pc = "sleeping"
    /\ ops' = Append(ops, Op(Host, "start",
                             [port |-> call[w].port, ret |-> "Ok",
                              task |-> call[w].task],
                             FALSE, <<>>))
    /\ call' = [call EXCEPT ![w] = NoCall]
    /\ UNCHANGED <<web, sync, store, chan, links, pending, clock, returned,
                   pinned_transcription_clients, running, port, shutdown_tx, task,
                   seg>>

\* run_combined_server: a oneshot channel is made and its sender stored.  The
\* sender stored before is dropped, which completes its receiver.
task_init(k) ==
    /\ task[k].state = "spawned"
    /\ shutdown_tx' = Some(k)
    /\ task' = [j \in TaskIds |->
                  IF j = k THEN [task[j] EXCEPT !.state = "init", !.signal = "pending"]
                  ELSE IF shutdown_tx = Some(j) /\ task[j].signal = "pending"
                       THEN [task[j] EXCEPT !.signal = "fired"]
                       ELSE task[j]]
    /\ UNCHANGED <<web, sync, store, chan, links, pending, ops, clock, returned,
                   pinned_transcription_clients, running, port, call, seg>>

\* No other server of this process listens on the port.
PortFree(k) ==
    \A j \in TaskIds \ {k} : ~(task[j].state = "serving" /\ task[j].port = task[k].port)

\* warp::serve(routes).bind_with_graceful_shutdown(addr, ..): the listener is
\* bound, or the call panics and the task ends there.
task_bind(k) ==
    /\ task[k].state = "init"
    /\ \E bound \in BOOLEAN :
         /\ bound => PortFree(k)
         /\ task' = [task EXCEPT ![k].state = IF bound THEN "serving" ELSE "panicked"]
    /\ UNCHANGED <<web, sync, store, chan, links, pending, ops, clock, returned,
                   pinned_transcription_clients, running, port, shutdown_tx, call,
                   seg>>

\* A shutdown that aborts the forwarders of the sockets it has accepted.
FwdAfterShutdownSevered ==
    [c \in Conns |-> IF fwd[c] = "running" THEN "aborted" ELSE fwd[c]]

\* The graceful shutdown ends the accept loop; the tasks of upgraded sockets
\* are not its to end.
FwdAfterShutdown == fwd

\* server.await: the shutdown future has completed, the accept loop ends.
task_exit(k) ==
    /\ task[k].state = "serving"
    /\ task[k].signal = "fired"
    /\ task' = [task EXCEPT ![k].state = "exited"]
    /\ fwd' = FwdAfterShutdown
    /\ UNCHANGED <<web, sync, store, chan, conn, sub, cursor, received, ended, pending, ops,
                   clock, returned, pinned_transcription_clients, running, port,
                   shutdown_tx, call, seg>>

\* *SERVER_STATE.running.write().await = false; at the end of the spawned task.
task_finish(k) ==
    /\ task[k].state = "exited"
    /\ running' = FALSE
    /\ task' = [task EXCEPT ![k].state = "done"]
    /\ UNCHANGED <<web, sync, store, chan, links, pending, ops, clock, returned,
                   pinned_transcription_clients, port, shutdown_tx, call, seg>>

\* if let Some(tx) = state.shutdown_tx.write().await.take() { let _ = tx.send(()); }
stop_signal(w) ==
    /\ call[w] = NoCall
    /\ Len(HostOps) + CallsInProgress < MaxCalls
    /\ shutdown_tx' = None
    /\ task' = [j \in TaskIds |->
                  IF shutdown_tx = Some(j) /\ task[j].signal = "pending"
                  THEN [task[j] EXCEPT !.signal = "fired"]
                  ELSE task[j]]
    /\ call' = [call EXCEPT ![w] = [kind |-> "stop", pc |-> "signalled",
                                    at |-> Len(chan)]]
    /\ UNCHANGED <<web, sync, store, chan, links, pending, ops, clock, returned,
                   pinned_transcription_clients, running, port, seg>>

\* *state.running.write().await = false; Ok(())
stop_return(w) ==
    /\ call[w].kind = "stop"
    /\ running' = FALSE
    /\ ops' = Append(ops, Op(Host, "stop", [ret |-> "Ok", issued |-> call[w].at],
                             TRUE, <<>>))
    /\ call' = [call EXCEPT ![w] = NoCall]
    /\ UNCHANGED <<web, sync, store, chan, links, pending, clock, returned,
                   pinned_transcription_clients, port, shutdown_tx, task, seg>>

\* A socket accepted by a serving instance and upgraded on /ws.
Accept(c) ==
    /\ \E k \in TaskIds : task[k].state = "serving"
    /\ Connect(c)

(***************************************************************************)
(* One call of parse_notepad_text, iteration by iteration.                 *)
(***************************************************************************)
Alphabet == {"a", TAB, NL, SP}

\* The caller's text grows by one character.
Type(ch) ==
    /\ seg.pc = "input"
    /\ Len(seg.text) < MaxLen
    /\ seg' = [seg EXCEPT !.text = Append(@, ch)]
    /\ UNCHANGED <<web, sync, store, chan, links, pending, ops, clock, returned,
                   pinned_transcription_clients, lifecycle>>

\* let lines = text.lines().collect(); let mut i = 0; let mut color_index = 0;
ParseBegin ==
    /\ seg.pc = "input"
    /\ seg' = [seg EXCEPT !.pc = "scan", !.lines = Lines(seg.text), !.i = 1,
                          !.color_index = 0, !.slides = <<>>]
    /\ UNCHANGED <<web, sync, store, chan, links, pending, ops, clock, returned,
                   pinned_transcription_clients, lifecycle>>

\* while i < lines.len() { ... }: one iteration.
ParseIterate ==
    /\ seg.pc = "scan"
    /\ seg.i <= Len(seg.lines)
    /\ LET after == ParseIteration(seg.lines, seg.i, seg.color_index, seg.slides)
       IN  seg' = [seg EXCEPT !.i = after.i, !.color_index = after.color_index,
                              !.slides = after.slides]
    /\ UNCHANGED <<web, sync, store, chan, links, pending, ops, clock, returned,
                   pinned_transcription_clients, lifecycle>>

\* The loop condition fails: the slides are returned.
ParseReturn ==
    /\ seg.pc = "scan"
    /\ seg.i > Len(seg.lines)
    /\ seg' = [seg EXCEPT !.pc = "done"]
    /\ UNCHANGED <<web, sync, store, chan, links, pending, ops, clock, returned,
                   pinned_transcription_clients, lifecycle>>

(***************************************************************************)
(* Sync relay: handle_sync_ws_connection, step by step.                    *)
(***************************************************************************)
\* let mut broadcast_rx = state.broadcast_tx.subscribe(); ... *count += 1;
SyncAccept(c) ==
    /\ sync_task = "serving"
    /\ peer[c].state = "new"
    /\ peer' = [peer EXCEPT ![c].state = "accepted", ![c].sub = Len(sync_chan),
                            ![c].cursor = Len(sync_chan)]
    /\ sync_state' = [sync_state EXCEPT !.connected_clients = @ + 1]
    /\ UNCHANGED <<sync_task, sync_chan, sync_call, sync_ops, cache_log, hub>>

\* A welcome written to every connection's socket.
WelcomeTargetsAll(c) == Conns

\* ws_sender.send(..): the sender half of the connection's own socket.
WelcomeTargets(c) == {c}

\* The welcome with the counter and the mode as read, written to the socket
\* (the write may fail: its result is ignored); then forward_task is spawned.
SyncWelcome(c) ==
    /\ peer[c].state = "accepted"
    /\ \E sent \in BOOLEAN :
         LET json == SyncEncode(Welcome(sync_state.server_mode,
                                        sync_state.connected_clients))
         IN  peer' = [d \in Conns |->
                        LET p == IF d = c
                                 THEN [peer[d] EXCEPT !.state = "open",
                                                      !.fwd = "running",
                                                      !.socket_ok = sent]
                                 ELSE peer[d]
                        IN  IF sent /\ d \in WelcomeTargets(c)
                            THEN [p EXCEPT !.socket =
                                               Append(@, [at |-> 0, msg |-> json])]
                            ELSE p]
    /\ UNCHANGED <<sync_state, sync_task, sync_chan, sync_call, sync_ops, cache_log,
                   hub>>

\* One iteration of the forward_task loop of a sync connection.
SyncForward(c) ==
    /\ peer[c].fwd = "running"
    /\ peer[c].cursor < Len(sync_chan)
    /\ IF Len(sync_chan) - peer[c].cursor > Capacity
       THEN peer' = [peer EXCEPT ![c].fwd = ForwardAfterLagged,
                                 ![c].cursor = Len(sync_chan) - Capacity]
       ELSE \E sent \in (IF peer[c].socket_ok THEN BOOLEAN ELSE {FALSE}) :
              peer' = [peer EXCEPT
                         ![c].cursor = @ + 1,
                         ![c].fwd = IF sent THEN @ ELSE "send_failed",
                         ![c].socket =
                           IF sent
                           THEN Append(@, [at |-> peer[c].cursor + 1,
                                           msg |-> sync_chan[peer[c].cursor + 1]])
                           ELSE @]
    /\ UNCHANGED <<sync_state, sync_task, sync_chan, sync_call, sync_ops, cache_log,
                   hub>>

\* A handler that is about to build a FullState: nothing read yet.
StartWork(kind, envelope, request_playlists, request_schedule) ==
    [pc |-> "playlists", kind |-> kind, envelope |-> envelope,
     request_playlists |-> request_playlists,
     request_schedule |-> request_schedule, playlists |-> None,
     schedule |-> None, current_idx |-> None, from |-> Len(cache_log),
     begun |-> Len(sync_ops)]

\* SyncMessage::Join: the three cache fields are read one after the other.
SyncJoin(c, envelope) ==
    /\ peer[c].state = "open"
    /\ peer[c].work = NoWork
    /\ CanSync
    /\ SyncDecode(envelope) # None
    /\ envelope.type = "sync_join"
    /\ peer' = [peer EXCEPT ![c].work = StartWork("join", envelope, TRUE, TRUE)]
    /\ UNCHANGED <<sync_state, sync_task, sync_chan, sync_call, sync_ops, cache_log,
                   hub>>

\* SyncMessage::RequestState { request_playlists, request_schedule }
SyncRequestState(c, envelope) ==
    /\ peer[c].state = "open"
    /\ peer[c].work = NoWork
    /\ CanSync
    /\ SyncDecode(envelope) # None
    /\ envelope.type = "sync_request_state"
    /\ LET msg == SyncDecode(envelope)[1]
       IN  peer' = [peer EXCEPT
                      ![c].work = StartWork("request_state", envelope,
                                            msg.request_playlists,
                                            msg.request_schedule)]
    /\ UNCHANGED <<sync_state, sync_task, sync_chan, sync_call, sync_ops, cache_log,
                   hub>>

\* A field read from the cache whatever the flag says.
RequestedAlways(flag, cached) == cached

\* if request_playlists { state.playlists.read().await.clone() } else { None }
Requested(flag, cached) == IF flag THEN cached ELSE None

\* let playlists = ...
SyncReadPlaylists(c) ==
    /\ peer[c].work.pc = "playlists"
    /\ peer' = [peer EXCEPT
                  ![c].work.playlists =
                      Requested(peer[c].work.request_playlists, sync_state.playlists),
                  ![c].work.pc = "schedule"]
    /\ UNCHANGED <<sync_state, sync_task, sync_chan, sync_call, sync_ops, cache_log,
                   hub>>

\* let schedule = ...
SyncReadSchedule(c) ==
    /\ peer[c].work.pc = "schedule"
    /\ peer' = [peer EXCEPT
                  ![c].work.schedule =
                      Requested(peer[c].work.request_schedule, sync_state.schedule),
                  ![c].work.pc = "index"]
    /\ UNCHANGED <<sync_state, sync_task, sync_chan, sync_call, sync_ops, cache_log,
                   hub>>

\* let current_idx = ...
SyncReadIndex(c) ==
    /\ peer[c].work.pc = "index"
    /\ peer' = [peer EXCEPT
                  ![c].work.current_idx =
                      Requested(peer[c].work.request_schedule,
                                sync_state.current_session_index),
                  ![c].work.pc = "send"]
    /\ UNCHANGED <<sync_state, sync_task, sync_chan, sync_call, sync_ops, cache_log,
                   hub>>

\* let full_state = SyncMessage::FullState { .. }; broadcast_tx.send(json)
SyncSendFullState(c) ==
    /\ peer[c].work.pc = "send"
    /\ LET w == peer[c].work
           json == SyncEncode(FullState(w.playlists, w.schedule, w.current_idx, clock))
       IN  /\ sync_chan' = Append(sync_chan, json)
           /\ sync_ops' = Append(sync_ops,
                 [SyncOp(c, w.kind, w.envelope, Some(json), w.from)
                    EXCEPT !.begun = w.begun])
    /\ peer' = [peer EXCEPT ![c].work = NoWork]
    /\ UNCHANGED <<sync_state, sync_task, sync_call, cache_log, hub>>

\* The kinds of the relay arm.
RelayKinds ==
    {"sync_playlist_item", "sync_playlist_delete", "sync_schedule", "sync_full_state"}

\* serde_json::to_string(&sync_msg): the decoded variant, serialized again.
RelayForward(envelope) == SyncEncode(SyncDecode(envelope)[1])

\* PlaylistItem | PlaylistDelete | Schedule | FullState: rebroadcast.
SyncRelay(c, envelope) ==
    /\ peer[c].state = "open"
    /\ peer[c].work = NoWork
    /\ CanSync
    /\ SyncDecode(envelope) # None
    /\ envelope.type \in RelayKinds
    /\ sync_chan' = Append(sync_chan, RelayForward(envelope))
    /\ sync_ops' = Append(sync_ops,
                          SyncOp(c, "relay", envelope, Some(RelayForward(envelope)),
                                 Len(cache_log)))
    /\ UNCHANGED <<sync_state, sync_task, peer, sync_call, cache_log, hub>>

\* An inbound text that does not decode: the `if let Ok(sync_msg)` has no else.
SyncDropInbound(c, envelope) ==
    /\ peer[c].state = "open"
    /\ peer[c].work = NoWork
    /\ CanSync
    /\ SyncDecode(envelope) = None
    /\ sync_ops' = Append(sync_ops,
                          SyncOp(c, "dropped", envelope, None, Len(cache_log)))
    /\ UNCHANGED <<sync_state, sync_task, sync_chan, peer, sync_call, cache_log, hub>>

\* The `_ => {}` arm: Welcome and Error coming from a peer.
SyncIgnoreInbound(c, envelope) ==
    /\ peer[c].state = "open"
    /\ peer[c].work = NoWork
    /\ CanSync
    /\ SyncDecode(envelope) # None
    /\ envelope.type \in {"sync_welcome", "sync_error"}
    /\ sync_ops' = Append(sync_ops,
                          SyncOp(c, "ignored", envelope, None, Len(cache_log)))
    /\ UNCHANGED <<sync_state, sync_task, sync_chan, peer, sync_call, cache_log, hub>>

\* A counter that a disconnect leaves as it is.
CountAfterDisconnectSame(count) == count

\* *count -= 1;
CountAfterDisconnect(count) == count - 1

\* ws_receiver.next() returns None: the counter goes down, forward_task.abort().
SyncDisconnect(c) ==
    /\ peer[c].state = "open"
    /\ peer[c].work = NoWork
    /\ peer' = [peer EXCEPT ![c].state = "closed",
                            ![c].fwd = IF @ = "running" THEN "aborted" ELSE @]
    /\ sync_state' = [sync_state EXCEPT
                        !.connected_clients = CountAfterDisconnect(@)]
    /\ UNCHANGED <<sync_task, sync_chan, sync_call, sync_ops, cache_log, hub>>

(***************************************************************************)
(* Sync relay: tauri commands on SYNC_SERVER_STATE.  The server's start    *)
(* and stop are taken in whole steps, the spawned task's included.         *)
(***************************************************************************)
\* start_sync_server(port, mode)
start_sync_server(mode) ==
    /\ Len(SyncHostOps) < MaxCalls
    /\ IF sync_state.running
       THEN /\ sync_ops' = Append(sync_ops,
                 SyncOp(Ui, "start",
                        [mode |-> mode, ret |-> "Sync server is already running"],
                        None, Len(cache_log)))
            /\ UNCHANGED <<sync_state, sync_task>>
       ELSE /\ sync_state' = [sync_state EXCEPT !.running = TRUE,
                                                !.server_mode = mode]
            /\ sync_task' = "serving"
            /\ sync_ops' = Append(sync_ops,
                 SyncOp(Ui, "start", [mode |-> mode, ret |-> "Ok"], None,
                        Len(cache_log)))
    /\ UNCHANGED <<sync_chan, peer, sync_call, cache_log, hub>>

\* stop_sync_server: the shutdown signal, running = false, connected_clients = 0.
stop_sync_server ==
    /\ Len(SyncHostOps) < MaxCalls
    /\ sync_task' = IF sync_task = "serving" THEN "exited" ELSE sync_task
    /\ sync_state' = [sync_state EXCEPT !.running = FALSE, !.connected_clients = 0]
    /\ sync_ops' = Append(sync_ops,
                          SyncOp(Ui, "stop", [ret |-> "Ok"], None, Len(cache_log)))
    /\ UNCHANGED <<sync_chan, peer, sync_call, cache_log, hub>>

\* update_sync_playlists(playlists)
update_sync_playlists(playlists) ==
    /\ CanSync
    /\ sync_state' = [sync_state EXCEPT !.playlists = Some(playlists)]
    /\ cache_log' = Append(cache_log, [Cache EXCEPT !.playlists = Some(playlists)])
    /\ sync_ops' = Append(sync_ops,
                          SyncOp(Ui, "update_playlists", [playlists |-> playlists],
                                 None, Len(cache_log)))
    /\ UNCHANGED <<sync_task, sync_chan, peer, sync_call, hub>>

\* The cache fields broadcast_sync_message writes for a message, in the order
\* it writes them: each one under its own lock.
CacheWrites(message) ==
    IF SyncDecode(message) = None THEN <<>>
    ELSE LET m == SyncDecode(message)[1] IN
      IF m.type = "sync_schedule"
      THEN <<[field |-> "schedule", value |-> Some(m.schedule)],
             [field |-> "current_session_index", value |-> m.current_session_index]>>
      ELSE IF m.type = "sync_full_state"
      THEN (IF m.playlists # None
            THEN <<[field |-> "playlists", value |-> m.playlists]>> ELSE <<>>)
           \o (IF m.schedule # None
               THEN <<[field |-> "schedule", value |-> m.schedule]>> ELSE <<>>)
           \o <<[field |-> "current_session_index",
                 value |-> m.current_session_index]>>
      ELSE <<>>

\* broadcast_sync_message: the running check and the decoding of the message.
broadcast_sync_check(message) ==
    /\ sync_call = NoSyncCall
    /\ CanSync
    /\ IF sync_state.running
       THEN /\ sync_call' = [pc |-> "cache", message |-> message,
                             todo |-> CacheWrites(message), from |-> Len(cache_log),
                             begun |-> Len(sync_ops)]
            /\ UNCHANGED sync_ops
       ELSE /\ sync_ops' = Append(sync_ops,
                 SyncOp(Ui, "broadcast",
                        [message |-> message, ret |-> "Sync server is not running"],
                        None, Len(cache_log)))
            /\ UNCHANGED sync_call
    /\ UNCHANGED <<sync_state, sync_task, sync_chan, peer, cache_log, hub>>

\* broadcast_sync_message: one write to the cache.
broadcast_sync_write ==
    /\ sync_call.pc = "cache"
    /\ sync_call.todo # <<>>
    /\ LET w == Head(sync_call.todo)
       IN  /\ sync_state' = [sync_state EXCEPT ![w.field] = w.value]
           /\ cache_log' = Append(cache_log, [Cache EXCEPT ![w.field] = w.value])
    /\ sync_call' = [sync_call EXCEPT !.todo = Tail(@)]
    /\ UNCHANGED <<sync_task, sync_chan, peer, sync_ops, hub>>

\* broadcast_sync_message: the send, whose error is handed to the caller.
broadcast_sync_send ==
    /\ sync_call.pc = "cache"
    /\ sync_call.todo = <<>>
    /\ sync_chan' = Append(sync_chan, sync_call.message)
    /\ sync_ops' = Append(sync_ops,
         [SyncOp(Ui, "broadcast",
                 [message |-> sync_call.message,
                  ret |-> ResultOfSend(IF SyncReceivers = {} THEN "Err" ELSE "Ok")],
                 Some(sync_call.message), sync_call.from)
            EXCEPT !.begun = sync_call.begun])
    /\ sync_call' = NoSyncCall
    /\ UNCHANGED <<sync_state, sync_task, peer, cache_log, hub>>

(***************************************************************************)
(* Specifications.  Each one is the hub driven by one group of clients     *)
(* and commands.                                                           *)
(***************************************************************************)
\* The store of sessions: one notepad connection and the session commands.
StoreConns == {"c1"}

Next ==
    \/ \E c \in StoreConns : Connect(c)
    \/ \E p \in Callers : Send(p)
    \/ \E c \in StoreConns, id \in SessionIds, text \in Texts : TextUpdate(c, id, text)
    \/ \E c \in StoreConns, id \in SessionIds : JoinSession(c, id)
    \/ \E name \in Names : create_live_slide_session(name)
    \/ \E id \in SessionIds, name \in Names, text \in Texts :
         upsert_live_slide_session(id, name, text)
    \/ \E id \in SessionIds : delete_live_slide_session(id)

Spec == Init /\ [][Next]_vars

\* The fan-out: two connections with their forwarders, publishing slide text
\* and transcription envelopes.
HubSessionIds == {"s1"}
HubTexts == {TextHeading}

NextFanout ==
    \/ \E c \in Conns : Connect(c)
    \/ \E c \in Conns : Disconnect(c)
    \/ \E c \in Conns : Forward(c)
    \/ \E p \in Callers : Send(p)
    \/ \E c \in Conns, id \in HubSessionIds, text \in HubTexts : TextUpdate(c, id, text)
    \/ \E c \in Conns : TranscriptionStream(c, TranscriptionEnvelope)

SpecFanout == Init /\ [][NextFanout]_vars

\* A viewer joining a session: one connection with its forwarder, and the
\* control surface writing the session.
NextJoin ==
    \/ \E c \in StoreConns : Connect(c)
    \/ \E c \in StoreConns : Disconnect(c)
    \/ \E c \in StoreConns : Forward(c)
    \/ \E p \in Callers : Send(p)
    \/ \E c \in StoreConns, id \in HubSessionIds, text \in HubTexts :
         TextUpdate(c, id, text)
    \/ \E c \in StoreConns, id \in HubSessionIds : JoinSession(c, id)
    \/ \E id \in HubSessionIds, name \in Names, text \in HubTexts :
         upsert_live_slide_session(id, name, text)

SpecJoin == Init /\ [][NextJoin]_vars

\* The single-record topics: schedule, timer, display.
NextTopics ==
    \/ \E c \in StoreConns : Connect(c)
    \/ \E p \in Callers : Send(p)
    \/ \E c \in StoreConns : JoinSchedule(c)
    \/ \E c \in StoreConns : JoinTimer(c)
    \/ \E c \in StoreConns : JoinDisplay(c)
    \/ \E items \in Schedules, idx \in Indexes : update_schedule(items, idx)
    \/ \E ts \in TimerStates : update_timer_state(ts)
    \/ \E ds \in DisplayStates : update_display_state(ds)

SpecTopics == Init /\ [][NextTopics]_vars

\* The reader loop's decoding: a connection sending well-formed, malformed and
\* server-vocabulary envelopes, with the store changing beside it.
NextInbound ==
    \/ \E c \in StoreConns : Connect(c)
    \/ \E p \in Callers : Send(p)
    \/ \E c \in StoreConns, id \in HubSessionIds, text \in HubTexts :
         TextUpdate(c, id, text)
    \/ \E c \in StoreConns : TranscriptionStream(c, TranscriptionEnvelope)
    \/ \E c \in StoreConns, envelope \in MalformedEnvelopes : DropInbound(c, envelope)
    \/ \E c \in StoreConns, envelope \in ServerEnvelopes : IgnoreInbound(c, envelope)
    \/ \E id \in HubSessionIds, name \in Names, text \in HubTexts :
         upsert_live_slide_session(id, name, text)
    \/ \E client_id \in PinClientIds : transcription_pin(client_id, None)

SpecInbound == Init /\ [][NextInbound]_vars

\* The lifecycle of the presentation server: start, stop and the background
\* task, with a client coming and going and the raw broadcast command.
LifecyclePorts == {9876}
\* The caller of the scenarios in which the calls follow one another.
FirstHost == "h1"

NextLifecycle ==
    \/ \E p \in LifecyclePorts : start_check(FirstHost, p)
    \/ start_spawn(FirstHost)
    \/ start_return(FirstHost)
    \/ \E k \in TaskIds : task_init(k)
    \/ \E k \in TaskIds : task_bind(k)
    \/ \E k \in TaskIds : task_exit(k)
    \/ \E k \in TaskIds : task_finish(k)
    \/ stop_signal(FirstHost)
    \/ stop_return(FirstHost)
    \/ \E c \in StoreConns : Accept(c)
    \/ \E c \in StoreConns : Disconnect(c)
    \/ \E message \in RawMessages : broadcast_live_slides_message(message)

SpecLifecycle == Init /\ [][NextLifecycle]_vars

\* Publishing around a stop: one server instance is started and stopped, with
\* an accepted client, its forwarder, and schedule updates.
LifecycleSchedules == {<<ScheduleItem1>>}

\* The one start call of the scenario.
StartOnce(p) ==
    /\ HostOps = <<>>
    /\ start_check(FirstHost, p)

NextStop ==
    \/ \E p \in LifecyclePorts : StartOnce(p)
    \/ start_spawn(FirstHost)
    \/ start_return(FirstHost)
    \/ \E k \in TaskIds : task_init(k)
    \/ \E k \in TaskIds : task_bind(k)
    \/ \E k \in TaskIds : task_exit(k)
    \/ \E k \in TaskIds : task_finish(k)
    \/ stop_signal(FirstHost)
    \/ stop_return(FirstHost)
    \/ \E c \in StoreConns : Accept(c)
    \/ \E c \in StoreConns : Disconnect(c)
    \/ \E c \in StoreConns : Forward(c)
    \/ \E p \in Callers : Send(p)
    \/ \E items \in LifecycleSchedules : update_schedule(items, Some(0))

SpecStop == Init /\ [][NextStop]_vars

\* The segmentation applied to every text of up to MaxLen characters.
NextSegment ==
    \/ \E ch \in Alphabet : Type(ch)
    \/ ParseBegin
    \/ ParseIterate
    \/ ParseReturn

SpecSegment == Init /\ [][NextSegment]_vars

\* The sync relay's connections: two peers that come and go, one of them
\* relaying a schedule, and the server's start and stop.
SyncPeers == {"c1", "c2"}
CachePeers == {"c1"}

\* The first call of start_sync_server.
SyncStartOnce(mode) == SyncHostOps = <<>> /\ start_sync_server(mode)

NextSyncPeers ==
    \/ \E mode \in SyncModes : SyncStartOnce(mode)
    \/ stop_sync_server
    \/ \E c \in SyncPeers : SyncAccept(c)
    \/ \E c \in SyncPeers : SyncWelcome(c)
    \/ \E c \in SyncPeers : SyncForward(c)
    \/ \E c \in CachePeers : SyncRelay(c, SyncScheduleEnvelope)
    \/ \E c \in SyncPeers : SyncDisconnect(c)

SpecSyncPeers == Init /\ [][NextSyncPeers]_vars

\* The sync relay's flood: two peers, one of them sending every kind of
\* inbound envelope that is relayed, dropped or ignored.
NextSyncRelay ==
    \/ SyncStartOnce("master")
    \/ \E c \in SyncPeers : SyncAccept(c)
    \/ \E c \in SyncPeers : SyncWelcome(c)
    \/ \E c \in SyncPeers : SyncForward(c)
    \/ \E c \in CachePeers, e \in RelayEnvelopes : SyncRelay(c, e)
    \/ \E c \in CachePeers : SyncDropInbound(c, SyncUnknownEnvelope)
    \/ \E c \in CachePeers, e \in SyncServerEnvelopes : SyncIgnoreInbound(c, e)

SpecSyncRelay == Init /\ [][NextSyncRelay]_vars

\* The sync relay's state requests: one peer asking for the state with every
\* combination of flags, present or left out, while the control surface
\* fills the cache.
NextSyncRequest ==
    \/ SyncStartOnce("master")
    \/ \E c \in CachePeers : SyncAccept(c)
    \/ \E c \in CachePeers : SyncWelcome(c)
    \/ \E c \in CachePeers, e \in RequestStateEnvelopes : SyncRequestState(c, e)
    \/ \E c \in CachePeers, e \in RequestStateOmitted : SyncDropInbound(c, e)
    \/ \E c \in CachePeers : SyncReadPlaylists(c)
    \/ \E c \in CachePeers : SyncReadSchedule(c)
    \/ \E c \in CachePeers : SyncReadIndex(c)
    \/ \E c \in CachePeers : SyncSendFullState(c)
    \/ update_sync_playlists(Playlists1)
    \/ broadcast_sync_check(SyncScheduleEnvelope)
    \/ broadcast_sync_write
    \/ broadcast_sync_send

SpecSyncRequest == Init /\ [][NextSyncRequest]_vars

\* The sync cache: one peer that joins while the control surface and the
\* peer itself pass schedules through the relay.
NextSyncCache ==
    \/ SyncStartOnce("master")
    \/ \E c \in CachePeers : SyncAccept(c)
    \/ \E c \in CachePeers : SyncWelcome(c)
    \/ \E c \in CachePeers : SyncJoin(c, SyncJoinEnvelope)
    \/ \E c \in CachePeers : SyncReadPlaylists(c)
    \/ \E c \in CachePeers : SyncReadSchedule(c)
    \/ \E c \in CachePeers : SyncReadIndex(c)
    \/ \E c \in CachePeers : SyncSendFullState(c)
    \/ \E c \in CachePeers : SyncRelay(c, SyncScheduleEnvelope)
    \/ update_sync_playlists(Playlists1)
    \/ \E message \in SyncCommandMessages : broadcast_sync_check(message)
    \/ broadcast_sync_write
    \/ broadcast_sync_send

SpecSyncCache == Init /\ [][NextSyncCache]_vars

\* The HTTP layer: every route of the combined server beside the socket,
\* with the control surface writing the schedule and a session.
NextHttp ==
    \/ \E enabled \in BOOLEAN : set_api_enabled(enabled)
    \/ schedule_api_route
    \/ live_slides_api_route
    \/ \E client_id \in PinClientIds : transcription_pin(client_id, None)
    \/ \E reference \in References : api_scripture_route(reference)
    \/ \E body \in TimerBodies : api_timer_route(body)
    \/ static_route
    \/ \E p \in Callers : Send(p)
    \/ \E items \in LifecycleSchedules : update_schedule(items, Some(0))
    \/ \E id \in HubSessionIds, name \in Names, text \in HubTexts :
         upsert_live_slide_session(id, name, text)

SpecHttp == Init /\ [][NextHttp]_vars

\* Renaming: the control surface upserting two sessions under two names,
\* and deleting them.
UpsertNames == {"n1", "n2"}

NextUpsert ==
    \/ \E p \in Callers : Send(p)
    \/ \E id \in SessionIds, name \in UpsertNames, text \in HubTexts :
         upsert_live_slide_session(id, name, text)
    \/ \E id \in SessionIds : delete_live_slide_session(id)

SpecUpsert == Init /\ [][NextUpsert]_vars

\* Two callers of the host: start and stop calls that run side by side, with
\* the background tasks they spawn.
NextRace ==
    \/ \E w \in Hosts, p \in LifecyclePorts : start_check(w, p)
    \/ \E w \in Hosts : start_spawn(w)
    \/ \E w \in Hosts : start_return(w)
    \/ \E k \in TaskIds : task_init(k)
    \/ \E k \in TaskIds : task_bind(k)
    \/ \E k \in TaskIds : task_exit(k)
    \/ \E k \in TaskIds : task_finish(k)
    \/ \E w \in Hosts : stop_signal(w)
    \/ \E w \in Hosts : stop_return(w)

SpecRace == Init /\ [][NextRace]_vars

(***************************************************************************)
(* Properties.                                                             *)
(***************************************************************************)
\* No handler is between its store write and its sends.
Idle == \A p \in Callers : pending[p] = <<>>

\* The forward task of c has nothing left to do: it ended, or it has passed
\* every message in the channel.
ForwarderDone(c) == fwd[c] # "running" \/ cursor[c] = Len(chan)

\* How often channel position k was written to the socket of c.
Deliveries(c, k) == Cardinality({i \in DOMAIN received[c] : received[c][i] = k})

\* The last operation is a JoinSession by c for a session that existed.
JoinedLast(c) ==
    /\ ops # <<>>
    /\ Last(ops).kind = "join_session"
    /\ Last(ops).who = c
    /\ Last(ops).existed

\* C1: join-then-idle.  When JoinSession(id) for an existing session is the
\* last thing a connected client (socket open and working) did, and the hub
\* has come to rest, the client has received the one SlidesUpdate the join
\* published, exactly once, and it carries the session's stored slides and
\* raw text.
C1_JoinThenIdle ==
    \A c \in Conns :
      (JoinedLast(c) /\ Idle /\ conn[c] = "open" /\ fwd[c] # "send_failed"
         /\ ForwarderDone(c))
      => LET k == Last(ops).at + 1
             id == Last(ops).arg.session_id
         IN /\ Len(chan) >= k
            /\ chan[k] = [type |-> "slides_update", session_id |-> id,
                          slides |-> sessions[id].slides,
                          raw_text |-> sessions[id].raw_text]
            /\ Deliveries(c, k) = 1

\* C3: every connection receives the messages in the order of their
\* publication: the channel positions written to its socket only grow.
C3_DeliveryInPublishOrder ==
    \A c \in Conns : \A i, j \in DOMAIN received[c] :
      i < j => received[c][i] < received[c][j]

\* C3 witness: a connection has been sent two messages.
C3_Witness == \E c \in Conns : Len(received[c]) >= 2

C5_LaggedSubscriberKeepsReceiving ==
    \A c \in Conns :
      (conn[c] = "open" /\ fwd[c] # "send_failed" /\ cursor[c] < Len(chan))
      => fwd[c] = "running"

\* C6: a forwarder stops only because a socket send failed or because the
\* reader loop of its connection ended and aborted it.
C6_ForwarderStopsOnlyOnSendErrorOrAbort ==
    [][\A c \in Conns :
         (fwd[c] = "running" /\ fwd'[c] # "running")
         => fwd'[c] \in {"send_failed", "aborted"}]_vars

\* C7: every stored session holds the slides that the segmentation makes of
\* its stored raw text.
C7_SlidesAreSegmentOfRawText ==
    \A id \in DOMAIN sessions :
      sessions[id].slides = parse_notepad_text(sessions[id].raw_text)

\* C7 witness: a TextUpdate has rewritten a stored session that now has slides.
C7_Witness ==
    /\ ops # <<>>
    /\ Last(ops).kind = "text_update"
    /\ Last(ops).existed
    /\ sessions[Last(ops).arg.session_id].slides # <<>>

\* An operation has just been taken up.
Started == Len(ops') = Len(ops) + 1

\* C9: a TextUpdate for a stored session sets its raw text to the text and its
\* slides to the segmentation of the text, and hands exactly one SlidesUpdate
\* with that id, those slides and that text to the channel; the send appends
\* that message and nothing else.
C9_TextUpdateStoresAndPublishes ==
    [][/\ (Started /\ Last(ops').kind = "text_update" /\ Last(ops').existed)
          => LET c == Last(ops').who
                 id == Last(ops').arg.session_id
                 text == Last(ops').arg.text
             IN /\ sessions'[id].raw_text = text
                /\ sessions'[id].slides = parse_notepad_text(text)
                /\ pending'[c] = <<[type |-> "slides_update", session_id |-> id,
                                    slides |-> parse_notepad_text(text),
                                    raw_text |-> text]>>
       /\ \A c \in Conns :
            (pending[c] # <<>> /\ pending'[c] # pending[c])
            => /\ chan' = Append(chan, Head(pending[c]))
               /\ pending'[c] = <<>>]_vars

\* C9 witness: the SlidesUpdate of a TextUpdate for a stored session is in the
\* channel.
C9_Witness ==
    /\ ops # <<>>
    /\ Last(ops).kind = "text_update"
    /\ Last(ops).existed
    /\ pending[Last(ops).who] = <<>>
    /\ \E k \in DOMAIN chan : chan[k] = Last(ops).out[1]

\* The number of messages of a type among the messages of a call.
CountType(msgs, type) == Cardinality({i \in DOMAIN msgs : msgs[i].type = type})

\* The SlidesUpdate events among the messages of a call.
SlidesUpdatesOf(msgs) == SelectSeq(msgs, LAMBDA m : m.type = "slides_update")

\* Two upsertSession calls with identical (id, name, rawText).
SameUpsert(a, b) ==
    /\ a.kind = "upsert"
    /\ b.kind = "upsert"
    /\ a.arg.session_id = b.arg.session_id
    /\ a.arg.name = b.arg.name
    /\ a.arg.raw_text = b.arg.raw_text

\* What both readings of C10 say about the slides: both calls store and return
\* the same slides, each sends exactly one SlidesUpdate, the two are equal, and
\* while no later operation has run the Store holds those slides.
SameSlidesBothTimes(a, b) ==
    /\ a.arg.ret.slides = b.arg.ret.slides
    /\ Len(SlidesUpdatesOf(a.out)) = 1
    /\ SlidesUpdatesOf(a.out) = SlidesUpdatesOf(b.out)
    /\ SlidesUpdatesOf(b.out)[1].slides = b.arg.ret.slides
    /\ (Last(ops) = b) => sessions[b.arg.session_id].slides = a.arg.ret.slides

\* C10 as amended: two consecutive identical upsertSession calls store and
\* announce identical slides, the second call sends no SessionCreated, and the
\* first sends one exactly when the id was not in the Store before it.
C10_UpsertIdempotent ==
    \A i \in 1 .. (Len(UiOps) - 1) :
      SameUpsert(UiOps[i], UiOps[i + 1])
      => /\ SameSlidesBothTimes(UiOps[i], UiOps[i + 1])
         /\ CountType(UiOps[i + 1].out, "session_created") = 0
         /\ CountType(UiOps[i].out, "session_created")
              = (IF UiOps[i].existed THEN 0 ELSE 1)

\* C10 witness: an upsert that created its session was repeated, and the
\* events of both calls are in the channel.
C10_Witness ==
    /\ Len(UiOps) >= 2
    /\ SameUpsert(UiOps[Len(UiOps) - 1], UiOps[Len(UiOps)])
    /\ ~UiOps[Len(UiOps) - 1].existed
    /\ chan = UiOps[Len(UiOps) - 1].out \o UiOps[Len(UiOps)].out

\* C10 as stated: across two consecutive identical upsertSession calls
\* SessionCreated is sent exactly once, by the first call.
C10_SessionCreatedExactlyOnce ==
    \A i \in 1 .. (Len(UiOps) - 1) :
      SameUpsert(UiOps[i], UiOps[i + 1])
      => /\ SameSlidesBothTimes(UiOps[i], UiOps[i + 1])
         /\ CountType(UiOps[i].out, "session_created") = 1
         /\ CountType(UiOps[i + 1].out, "session_created") = 0

\* The arguments of the last call of a kind, or the default when there is none.
RECURSIVE LastArg(_, _, _)
LastArg(seq, kind, default) ==
    IF seq = <<>> THEN default
    ELSE IF Last(seq).kind = kind THEN Last(seq).arg
    ELSE LastArg(SubSeq(seq, 1, Len(seq) - 1), kind, default)

\* The Store holds, for each topic, the value of the last update, or the
\* initial default.
StoreHoldsLastUpdate ==
    /\ schedule = LastArg(ops, "update_schedule",
                          [schedule |-> <<>>, current_session_index |-> None])
    /\ timer_state = LastArg(ops, "update_timer", DefaultTimerState)
    /\ display_state = LastArg(ops, "update_display", DefaultDisplayState)

\* C2: a JoinSchedule, JoinTimer or JoinDisplay appends exactly one message to
\* the channel, the ScheduleUpdate, TimerUpdate or DisplayUpdate whose payload
\* is the record the Store holds, and that record is the value of the last
\* update of the topic, or the initial default.
C2_JoinPublishesStoredRecord ==
    [][Started
          => /\ StoreHoldsLastUpdate'
             /\ Last(ops').kind = "join_schedule"
                  => chan' = Append(chan,
                         [type |-> "schedule_update",
                          schedule |-> schedule'.schedule,
                          currentSessionIndex |-> schedule'.current_session_index])
             /\ Last(ops').kind = "join_timer"
                  => chan' = Append(chan,
                         [type |-> "timer_update", timer_state |-> timer_state'])
             /\ Last(ops').kind = "join_display"
                  => chan' = Append(chan,
                         [type |-> "display_update",
                          scripture |-> display_state'.scripture,
                          slides |-> display_state'.slides,
                          settings |-> display_state'.settings])]_vars

\* C2 witness: a JoinSchedule after an update_schedule has put the updated
\* schedule into the channel.
C2_Witness ==
    /\ ops # <<>>
    /\ Last(ops).kind = "join_schedule"
    /\ schedule.schedule # <<>>
    /\ chan # <<>>
    /\ Last(chan).type = "schedule_update"
    /\ Last(chan).schedule = schedule.schedule

\* C8: the stored current_session_index is absent or an index into the stored
\* schedule.
C8_CurrentIndexValid ==
    \/ schedule.current_session_index = None
    \/ schedule.current_session_index[1] < Len(schedule.schedule)

\* The operation that put the session now stored under id into the Store: the
\* last create or upsert that found the id absent.
RECURSIVE CreationOf(_, _)
CreationOf(seq, id) ==
    IF seq = <<>> THEN 0
    ELSE LET o == Last(seq) IN
         IF \/ (o.kind = "create" /\ o.out[1].session.id = id)
            \/ (o.kind = "upsert" /\ ~o.existed /\ o.arg.session_id = id)
         THEN Len(seq)
         ELSE CreationOf(SubSeq(seq, 1, Len(seq) - 1), id)

\* C11: a stored session carries the createdAt it was created with: no upsert
\* and no TextUpdate since its creation has changed it.
C11_CreatedAtNeverChanges ==
    \A id \in DOMAIN sessions :
      /\ CreationOf(ops, id) > 0
      /\ sessions[id].created_at
           = ops[CreationOf(ops, id)].out[1].session.created_at

\* C11 witness: a session created at an earlier time has been upserted again
\* after the clock moved on.
C11_Witness ==
    /\ ops # <<>>
    /\ Last(ops).kind = "upsert"
    /\ Last(ops).existed
    /\ sessions[Last(ops).arg.session_id].created_at < clock

\* C12: a malformed inbound envelope changes neither the Store nor the
\* channel, queues no send, leaves every connection as it was (its own stays
\* open), and no Error message is ever published; a TextUpdate that follows it
\* on the same connection stores and announces as usual.
C12_MalformedIsDropped ==
    [][/\ (Started /\ Last(ops').kind = "dropped")
          => /\ UNCHANGED <<store, pinned_transcription_clients, chan, pending, links>>
             /\ conn'[Last(ops').who] = "open"
       /\ \A k \in DOMAIN chan' : chan'[k].type # "error"
       /\ (/\ Started
           /\ ops # <<>>
           /\ Last(ops).kind = "dropped"
           /\ Last(ops').who = Last(ops).who
           /\ Last(ops').kind = "text_update")
          => LET id == Last(ops').arg.session_id
                 text == Last(ops').arg.text
                 update == [type |-> "slides_update", session_id |-> id,
                            slides |-> parse_notepad_text(text), raw_text |-> text]
             IN /\ pending'[Last(ops').who] = <<update>>
                /\ id \in DOMAIN sessions
                   => /\ sessions'[id].raw_text = text
                      /\ sessions'[id].slides = parse_notepad_text(text)]_vars

\* C12 witness: after a malformed envelope the same connection sent a
\* TextUpdate for a stored session, and its SlidesUpdate is in the channel.
C12_Witness ==
    /\ Len(ops) >= 2
    /\ ops[Len(ops) - 1].kind = "dropped"
    /\ Last(ops).kind = "text_update"
    /\ Last(ops).who = ops[Len(ops) - 1].who
    /\ Last(ops).existed
    /\ conn[Last(ops).who] = "open"
    /\ chan # <<>>
    /\ Last(chan) = Last(ops).out[1]

\* C13: a publishing call of the control surface that found no subscriber (and,
\* for the raw broadcast, the server running) returned success.
C13_PublishWithoutSubscribersSucceeds ==
    (/\ returned # None
     /\ returned[1].receivers = 0
     /\ returned[1].value # "Live Slides server is not running")
    => returned[1].value = "Ok"

\* C14: a TranscriptionStream envelope is appended to the channel as it came
\* in, unknown fields included, and the Store and the pinned clients stay as
\* they were.
C14_TranscriptionRelayedVerbatim ==
    [][(Started /\ Last(ops').kind = "transcription_stream")
         => /\ chan' = Append(chan, Last(ops').arg)
            /\ UNCHANGED <<store, pinned_transcription_clients>>]_vars

\* C14 witness: an envelope with a field the enum does not declare is in the
\* channel, while the Store holds a session and a pinned client.
C14_Witness ==
    /\ ops # <<>>
    /\ Last(ops).kind = "transcription_stream"
    /\ "speaker" \in DOMAIN Last(chan)
    /\ Last(chan) = TranscriptionEnvelope
    /\ sessions # <<>>
    /\ pinned_transcription_clients # <<>>


\* The forwarder of c has been sent, in order and without a gap, every message
\* from its subscription up to the position its receiver has reached.
Gapless(c) == received[c] = [i \in 1 .. (cursor[c] - sub[c]) |-> sub[c] + i]

Max(a, b) == IF a >= b THEN a ELSE b

StopIsLast ==
    HostOps # <<>> /\ Last(HostOps).kind = "stop" /\ CallsInProgress = 0

StartReported == \E i \in DOMAIN HostOps :
                   HostOps[i].kind = "start" /\ HostOps[i].arg.ret = "Ok"

\* No background task has a step left to take.
TasksAtRest ==
    \A k \in TaskIds :
      /\ task[k].state \notin {"spawned", "init", "exited"}
      /\ ~(task[k].state = "serving" /\ task[k].signal = "fired")

\* C17: after a stop of a server that a start reported as started, once the
\* background tasks have no step left, no accept loop is left serving and the
\* running flag is false.
C17_StopEndsServer ==
    (StopIsLast /\ StartReported /\ TasksAtRest)
    => /\ \A k \in TaskIds : task[k].state # "serving"
       /\ running = FALSE

\* C18: a start whose background task could not bind the port returned an
\* error, and once it has returned the running flag is false.
C18_BindFailureFailsStart ==
    \A i \in DOMAIN HostOps :
      (/\ HostOps[i].kind = "start"
       /\ HostOps[i].arg.task \in TaskIds
       /\ task[HostOps[i].arg.task].state = "panicked")
      => /\ HostOps[i].arg.ret # "Ok"
         /\ (i = Len(HostOps) /\ CallsInProgress = 0) => running = FALSE

\* The operations that segment a text, the text, and the slides they announce.
HasText(o) == o.kind \in {"upsert", "text_update"}
TextOf(o) == IF o.kind = "upsert" THEN o.arg.raw_text ELSE o.arg.text
SlidesOf(o) == SlidesUpdatesOf(o.out)[1].slides

RECURSIVE IndentedRun(_, _)
IndentedRun(lines, j) ==
    IF j > Len(lines) THEN 0
    ELSE IF Trim(lines[j]) # <<>>
            /\ (Head(lines[j]) = TAB \/ StartsWith(lines[j], <<SP, SP, SP, SP>>))
         THEN 1 + IndentedRun(lines, j + 1)
         ELSE 0

\* The scan is at a non-blank, non-indented line.
AtParent ==
    /\ seg.pc = "scan"
    /\ seg.i <= Len(seg.lines)
    /\ Trim(seg.lines[seg.i]) # <<>>
    /\ Head(seg.lines[seg.i]) # TAB
    /\ ~StartsWith(seg.lines[seg.i], <<SP, SP, SP, SP>>)

\* C20: at a parent line followed by a run of n >= 1 indented lines, one
\* iteration appends exactly n + 1 slides: the parent alone, then for each
\* child in input order the pair [parent, child] with the flags false and
\* true; slide m of the group has the color palette[(c + m - 1) % 8] for the
\* color index c before the group; the color index ends at c + n + 1 and the
\* scan after the run.
C20_ParentWithChildren ==
    [][(AtParent /\ IndentedRun(seg.lines, seg.i + 1) >= 1 /\ seg' # seg)
         => LET n == IndentedRun(seg.lines, seg.i + 1)
                c == seg.color_index
                parent == Trim(seg.lines[seg.i])
                before == Len(seg.slides)
            IN /\ Len(seg'.slides) = before + n + 1
               /\ SubSeq(seg'.slides, 1, before) = seg.slides
               /\ seg'.slides[before + 1].items
                    = <<[text |-> parent, is_sub_item |-> FALSE]>>
               /\ \A m \in 1 .. n :
                    LET items == seg'.slides[before + 1 + m].items IN
                    /\ Len(items) = 2
                    /\ items[1] = [text |-> parent, is_sub_item |-> FALSE]
                    /\ items[2].is_sub_item = TRUE
                    /\ TrimEnd(items[2].text) = Trim(seg.lines[seg.i + m])
               /\ \A m \in 1 .. (n + 1) :
                    seg'.slides[before + m].color = SLIDE_COLORS[((c + m - 1) % 8) + 1]
               /\ seg'.color_index = c + n + 1
               /\ seg'.i = seg.i + n + 1]_vars

\* C20 witness: an orphan line, then a parent with one child, segmented to the
\* end: three slides, the last a [parent, child] pair in the third color.
C20_Witness ==
    /\ seg.pc = "done"
    /\ seg.text = <<TAB, "a", NL, "a", NL, TAB, "a">>
    /\ Len(seg.slides) = 3
    /\ Len(seg.slides[3].items) = 2
    /\ seg.slides[3].items[2].is_sub_item
    /\ seg.slides[3].color = SLIDE_COLORS[3]
    /\ seg.color_index = 3

\* The number of consecutive non-blank, non-indented lines from line k on.
RECURSIVE BareRun(_, _)
BareRun(lines, k) ==
    IF k > Len(lines) THEN 0
    ELSE IF Trim(lines[k]) # <<>>
            /\ Head(lines[k]) # TAB
            /\ ~StartsWith(lines[k], <<SP, SP, SP, SP>>)
         THEN 1 + BareRun(lines, k + 1)
         ELSE 0

\* C21: at a bare line that has no indented line directly after it, one
\* iteration appends exactly one slide for the whole run of n consecutive
\* bare lines from there on: its items are those lines in order, trimmed,
\* each with the flag false; its color is palette[0]; the color index is the
\* same after the iteration as before it, and the scan is after the run.
C21_BareRunIsOneFixedColorSlide ==
    [][(AtParent /\ IndentedRun(seg.lines, seg.i + 1) = 0 /\ seg' # seg)
         => LET n == BareRun(seg.lines, seg.i)
                before == Len(seg.slides)
            IN /\ Len(seg'.slides) = before + 1
               /\ SubSeq(seg'.slides, 1, before) = seg.slides
               /\ Len(seg'.slides[before + 1].items) = n
               /\ \A m \in 1 .. n :
                    seg'.slides[before + 1].items[m]
                      = [text |-> Trim(seg.lines[seg.i + m - 1]),
                         is_sub_item |-> FALSE]
               /\ seg'.slides[before + 1].color = SLIDE_COLORS[1]
               /\ seg'.color_index = seg.color_index
               /\ seg'.i = seg.i + n]_vars

\* C21 witness: an orphan, then a run of two bare lines, segmented to the
\* end: the run is one two-item slide in the first color although the color
\* index was 1, and the color index is still 1.
C21_Witness ==
    /\ seg.pc = "done"
    /\ seg.text = <<TAB, "a", NL, "a", NL, "a">>
    /\ Len(seg.slides) = 2
    /\ Len(seg.slides[2].items) = 2
    /\ seg.slides[2].color = SLIDE_COLORS[1]
    /\ seg.color_index = 1

\* The scan is at a non-blank indented line.
AtOrphan ==
    /\ seg.pc = "scan"
    /\ seg.i <= Len(seg.lines)
    /\ Trim(seg.lines[seg.i]) # <<>>
    /\ (Head(seg.lines[seg.i]) = TAB
          \/ StartsWith(seg.lines[seg.i], <<SP, SP, SP, SP>>))

\* C22: at an indented non-blank line, one iteration appends exactly one
\* slide with a single item whose flag is false and whose color is
\* palette[c % 8] for the color index c before it; the color index is c + 1
\* afterwards and the scan moves to the next line.  When the orphan is the
\* first line of the input the color is palette[0] and the color index is 1.
C22_OrphanIsOneSlide ==
    [][(AtOrphan /\ seg' # seg)
         => LET c == seg.color_index
                before == Len(seg.slides)
            IN /\ Len(seg'.slides) = before + 1
               /\ SubSeq(seg'.slides, 1, before) = seg.slides
               /\ Len(seg'.slides[before + 1].items) = 1
               /\ seg'.slides[before + 1].items[1].is_sub_item = FALSE
               /\ seg'.slides[before + 1].color = SLIDE_COLORS[(c % 8) + 1]
               /\ seg'.color_index = c + 1
               /\ seg'.i = seg.i + 1
               /\ seg.i = 1 => /\ seg'.slides[before + 1].color = SLIDE_COLORS[1]
                               /\ seg'.color_index = 1]_vars

\* C22 witness: two orphans segmented to the end: two single-item slides in
\* the first and the second color, and the color index is 2.
C22_Witness ==
    /\ seg.pc = "done"
    /\ seg.text = <<TAB, "a", NL, TAB, "a">>
    /\ Len(seg.slides) = 2
    /\ seg.slides[1] = [items |-> <<[text |-> <<"a">>, is_sub_item |-> FALSE]>>,
                        color |-> SLIDE_COLORS[1]]
    /\ seg.slides[2] = [items |-> <<[text |-> <<"a">>, is_sub_item |-> FALSE]>>,
                        color |-> SLIDE_COLORS[2]]
    /\ seg.color_index = 2

\* Every character of the text is a space, a tab or a newline.
AllBlank(text) == \A n \in 1 .. Len(text) : text[n] \in {SP, TAB, NL}

\* C23: an empty text and a text of blank lines only give the empty slide
\* list, from the loop run step by step and from the function as a whole; and
\* every iteration of the loop moves the scan index forward by at least one
\* line and never past the line after the last, so the loop ends after at
\* most as many iterations as there are lines.
C23_BlankGivesNoSlidesAndLoopAdvances ==
    /\ [](seg.pc = "done" /\ AllBlank(seg.text)
            => seg.slides = <<>> /\ parse_notepad_text(seg.text) = <<>>)
    /\ [][seg.pc = "scan" /\ seg'.pc = "scan" /\ seg' # seg
            => seg'.i > seg.i /\ seg'.i <= Len(seg.lines) + 1]_vars

\* C23 witness: a text of three blank lines, one of them indented, segmented
\* to the end in three iterations with no slide.
C23_Witness ==
    /\ seg.pc = "done"
    /\ seg.text = <<SP, NL, TAB, SP, NL, NL>>
    /\ Len(seg.lines) = 3
    /\ seg.i = 4
    /\ seg.slides = <<>>

\* The welcomes among the messages written to a sync connection's socket.
WelcomesOn(c) ==
    {n \in 1 .. Len(peer[c].socket) : peer[c].socket[n].msg.type = "sync_welcome"}

\* C24: a sync connection's socket carries at most one Welcome, its own, and
\* only once the connection has sent it; the Welcome has the server's id, its
\* mode and a client count, and is the first message on the socket; every
\* other message on the socket is a broadcast published after the connection
\* subscribed, in publish order; no Welcome is ever on the broadcast channel;
\* and when the write of the Welcome fails the socket carries nothing at all.
C24_WelcomeIsFirstAndUnicast ==
    /\ \A k \in 1 .. Len(sync_chan) : sync_chan[k].type # "sync_welcome"
    /\ \A c \in Conns :
         LET socket == peer[c].socket IN
         /\ peer[c].state \in {"new", "accepted"} => socket = <<>>
         /\ ~peer[c].socket_ok => socket = <<>>
         /\ socket # <<>> =>
              /\ WelcomesOn(c) = {1}
              /\ socket[1].at = 0
              /\ DOMAIN socket[1].msg
                   = {"type", "serverId", "serverMode", "connectedClients"}
              /\ socket[1].msg.serverId = ServerId
              /\ socket[1].msg.serverMode = sync_state.server_mode
         /\ \A n \in 2 .. Len(socket) :
              /\ socket[n].at > peer[c].sub
              /\ socket[n].msg = sync_chan[socket[n].at]
              /\ n > 2 => socket[n].at > socket[n - 1].at

\* C24 witness: both peers are connected and c1 has relayed a schedule; c1's
\* socket carries its Welcome and then that broadcast, c2's socket carries
\* its own Welcome with its own count, and the broadcast follows it there.
C24_Witness ==
    /\ Len(peer["c1"].socket) = 2
    /\ Len(peer["c2"].socket) = 2
    /\ peer["c1"].socket[1].msg.type = "sync_welcome"
    /\ peer["c2"].socket[1].msg.type = "sync_welcome"
    /\ peer["c1"].socket[1].msg.connectedClients = 1
    /\ peer["c2"].socket[1].msg.connectedClients = 2
    /\ peer["c1"].socket[2].msg.type = "sync_schedule"
    /\ peer["c2"].socket[2].msg = peer["c1"].socket[2].msg
    /\ Len(sync_ops) >= 2
    /\ sync_ops[2].who = "c1"

\* The cache value a FullState carries.
CarriedBy(full_state) ==
    [playlists |-> full_state.playlists, schedule |-> full_state.schedule,
     current_session_index |-> full_state.currentSessionIndex]

\* C25: every Join that has been handled published one FullState, and its
\* playlists, schedule and currentSessionIndex together are a value the cache
\* held at some moment between the arrival of the Join and the send.
C25_JoinPublishesTheCache ==
    \A j \in 1 .. Len(sync_ops) :
      sync_ops[j].kind = "join"
        => /\ sync_ops[j].out # None
           /\ sync_ops[j].out[1].type = "sync_full_state"
           /\ \E k \in sync_ops[j].from .. sync_ops[j].to :
                cache_log[k] = CarriedBy(sync_ops[j].out[1])

\* The message an operation passed through the relay.
PassedThrough(o) == IF o.kind = "relay" THEN o.envelope ELSE o.envelope.message

\* C26: when a Schedule or FullState message has been sent through the
\* relay, by a peer over its socket or by broadcast_sync_message, and the
\* next thing that happens is a Join, begun after the message was sent, then
\* the FullState that answers the Join carries the message's schedule and
\* currentSessionIndex, and its playlists when the message had them.
C26_JoinAfterMessageCarriesIt ==
    \A j \in 2 .. Len(sync_ops) :
      LET o == sync_ops[j - 1]
          join == sync_ops[j]
      IN  (/\ join.kind = "join"
           /\ join.begun = j - 1
           /\ o.kind \in {"relay", "broadcast"}
           /\ o.out # None
           /\ PassedThrough(o).type \in {"sync_schedule", "sync_full_state"})
          => LET m == SyncDecode(PassedThrough(o))[1]
                 answer == join.out[1]
             IN  /\ answer.currentSessionIndex = m.current_session_index
                 /\ m.type = "sync_schedule" => answer.schedule = Some(m.schedule)
                 /\ m.type = "sync_full_state" =>
                      /\ m.schedule # None => answer.schedule = m.schedule
                      /\ m.playlists # None => answer.playlists = m.playlists

\* C27: the FullState that answers a RequestState has no playlists when
\* requestPlaylists is false, and no schedule and no currentSessionIndex when
\* requestSchedule is false, whatever the cache holds; a field whose flag is
\* true carries what the cache held for that field at some moment between the
\* arrival of the request and the send.  No value (None) is not the empty
\* list (Some of the empty sequence).
C27_FieldsFollowFlags ==
    \A j \in 1 .. Len(sync_ops) :
      sync_ops[j].kind = "request_state"
        => LET o == sync_ops[j]
               answer == o.out[1]
               seen == {cache_log[k] : k \in o.from .. o.to}
           IN  /\ answer.type = "sync_full_state"
               /\ DOMAIN answer = {"type", "playlists", "schedule",
                                   "currentSessionIndex", "timestamp"}
               /\ IF o.envelope.requestPlaylists
                  THEN \E v \in seen : answer.playlists = v.playlists
                  ELSE answer.playlists = None
               /\ IF o.envelope.requestSchedule
                  THEN /\ \E v \in seen : answer.schedule = v.schedule
                       /\ \E v \in seen :
                            answer.currentSessionIndex = v.current_session_index
                  ELSE /\ answer.schedule = None
                       /\ answer.currentSessionIndex = None

\* C27 witness: the cache holds playlists, a schedule and an index when a
\* RequestState with both flags false arrives, and the FullState that answers
\* it carries none of them.
C27_Witness ==
    \E i \in 1 .. Len(sync_ops) :
      /\ sync_ops[i].kind = "request_state"
      /\ ~sync_ops[i].envelope.requestPlaylists
      /\ ~sync_ops[i].envelope.requestSchedule
      /\ cache_log[sync_ops[i].from]
           = [playlists |-> Some(Playlists1), schedule |-> Some(<<ScheduleItem1>>),
              current_session_index |-> Some(0)]
      /\ CarriedBy(sync_ops[i].out[1])
           = [playlists |-> None, schedule |-> None,
              current_session_index |-> None]

\* C28: every sync_request_state envelope a peer has sent, with its flags
\* present or left out, has been answered with a FullState, and the field of
\* a flag that was left out is absent in it.
C28_OmittedFlagIsAnswered ==
    \A j \in 1 .. Len(sync_ops) :
      LET o == sync_ops[j] IN
      (o.who \in Conns /\ o.envelope.type = "sync_request_state")
        => /\ o.out # None
           /\ o.out[1].type = "sync_full_state"
           /\ "requestPlaylists" \notin DOMAIN o.envelope
                => o.out[1].playlists = None
           /\ "requestSchedule" \notin DOMAIN o.envelope
                => o.out[1].schedule = None

\* C29: every envelope of a relayed kind that a peer has sent was published
\* on the channel, which every connected peer's forwarder reads, the
\* sender's too, and the published message is the inbound envelope: the same
\* fields with the same values.
C29_RelayedUnchanged ==
    \A j \in 1 .. Len(sync_ops) :
      LET o == sync_ops[j] IN
      o.kind = "relay"
        => /\ o.out # None
           /\ sync_chan[o.at + 1] = o.out[1]
           /\ o.out[1] = o.envelope

\* stop_sync_server has not been called.
NeverStopped == \A k \in 1 .. Len(sync_ops) : sync_ops[k].kind # "stop"

\* The sync connections between connect and disconnect.
Connected == {c \in Conns : peer[c].state \in {"accepted", "open"}}

HttpRequest ==
    \/ schedule_api_route
    \/ live_slides_api_route
    \/ \E client_id \in PinClientIds : transcription_pin(client_id, None)
    \/ \E reference \in References : api_scripture_route(reference)
    \/ \E body \in TimerBodies : api_timer_route(body)
    \/ static_route

\* C31: no request to the HTTP layer changes the store: the sessions, the
\* schedule, the timer, the display and the pinned-clients map are the same
\* after the request as before it.
C31_HttpLeavesStoreAlone ==
    [][HttpRequest => UNCHANGED <<store, pinned_transcription_clients>>]_vars

\* The step is a call of upsert_live_slide_session on an id the store holds.
UpsertOfExisting ==
    /\ Len(ops') = Len(ops) + 1
    /\ Last(ops').kind = "upsert"
    /\ Last(ops').existed

\* C32: an upsert on an id that already exists leaves the session's id, name
\* and created_at, and every other session of the store, as they were.
C32_UpsertKeepsIdentity ==
    [][UpsertOfExisting =>
         LET id == Last(ops').arg.session_id IN
         /\ DOMAIN sessions' = DOMAIN sessions
         /\ sessions'[id].id = sessions[id].id
         /\ sessions'[id].name = sessions[id].name
         /\ sessions'[id].created_at = sessions[id].created_at
         /\ \A other \in DOMAIN sessions \ {id} : sessions'[other] = sessions[other]]_vars

\* Line k of the text being segmented is bare: not blank and not indented.
BareAt(k) ==
    /\ Trim(seg.lines[k]) # <<>>
    /\ Head(seg.lines[k]) # TAB
    /\ ~StartsWith(seg.lines[k], <<SP, SP, SP, SP>>)

\* Line k is indented and not blank.
IndentedAt(k) ==
    /\ Trim(seg.lines[k]) # <<>>
    /\ (Head(seg.lines[k]) = TAB \/ StartsWith(seg.lines[k], <<SP, SP, SP, SP>>))

\* The scan is in a run of indented lines that directly follows two or more
\* bare lines.
AfterBareRun ==
    \E b \in 3 .. seg.i :
      /\ \A m \in b .. seg.i : IndentedAt(m)
      /\ BareAt(b - 1)
      /\ BareAt(b - 2)

\* C33: a run of n >= 2 bare lines directly followed by indented lines is one
\* slide in palette[0] and leaves the scan at the first indented line; each of
\* the indented lines then becomes a slide of its own with a single item, the
\* flag false and the color palette[c % 8] of the color index c; and the scan
\* never stands at a bare line whose previous line is bare, so the last bare
\* line is never a parent of the indented lines.
C33_IndentedAfterBareRunAreOrphans ==
    /\ [](AtParent /\ seg.i > 1 => ~BareAt(seg.i - 1))
    /\ [][(/\ AtParent
           /\ BareRun(seg.lines, seg.i) >= 2
           /\ IndentedRun(seg.lines, seg.i + BareRun(seg.lines, seg.i)) >= 1
           /\ seg' # seg)
            => LET n == BareRun(seg.lines, seg.i)
                   before == Len(seg.slides)
               IN /\ Len(seg'.slides) = before + 1
                  /\ Len(seg'.slides[before + 1].items) = n
                  /\ \A m \in 1 .. n :
                       seg'.slides[before + 1].items[m]
                         = [text |-> Trim(seg.lines[seg.i + m - 1]),
                            is_sub_item |-> FALSE]
                  /\ seg'.slides[before + 1].color = SLIDE_COLORS[1]
                  /\ seg'.i = seg.i + n
                  /\ seg'.pc = "scan"]_vars
    /\ [][(AtOrphan /\ AfterBareRun /\ seg' # seg)
            => LET c == seg.color_index
                   before == Len(seg.slides)
               IN /\ Len(seg'.slides) = before + 1
                  /\ SubSeq(seg'.slides, 1, before) = seg.slides
                  /\ Len(seg'.slides[before + 1].items) = 1
                  /\ seg'.slides[before + 1].items[1].is_sub_item = FALSE
                  /\ TrimEnd(seg'.slides[before + 1].items[1].text)
                       = Trim(seg.lines[seg.i])
                  /\ seg'.slides[before + 1].color = SLIDE_COLORS[(c % 8) + 1]
                  /\ seg'.color_index = c + 1
                  /\ seg'.i = seg.i + 1]_vars

\* C33 witness: two bare lines and an indented one, segmented to the end: the
\* slides are the pair of bare lines and the indented line alone.
C33_Witness ==
    /\ seg.pc = "done"
    /\ seg.text = <<"a", NL, "a", NL, TAB, "a">>
    /\ seg.slides
         = <<[items |-> <<[text |-> <<"a">>, is_sub_item |-> FALSE],
                          [text |-> <<"a">>, is_sub_item |-> FALSE]>>,
              color |-> SLIDE_COLORS[1]],
             [items |-> <<[text |-> <<"a">>, is_sub_item |-> FALSE]>>,
              color |-> SLIDE_COLORS[1]]>>

\* C34: every item of every slide the segmentation has emitted has a text
\* that is not empty and has no whitespace at its start or at its end.
C34_ItemsAreTrimmed ==
    \A n \in 1 .. Len(seg.slides) :
      \A m \in 1 .. Len(seg.slides[n].items) :
        LET text == seg.slides[n].items[m].text IN
        /\ text # <<>>
        /\ Trim(text) = text

\* The calls among the operations that make the session with the given id.
Makers(id) ==
    {n \in DOMAIN ops :
       \/ ops[n].kind = "upsert" /\ ops[n].arg.session_id = id
       \/ ops[n].kind = "create" /\ ops[n].out[1].session.id = id}

\* C35: a TextUpdate for an id the store does not hold creates no session and
\* leaves the whole store as it was, and still hands one SlidesUpdate with
\* that id, the segmented slides and the text to the channel, where the send
\* appends it; a session is in the store only if a create or an upsert made
\* it; and a JoinSession for an id the store does not hold publishes nothing.
C35_TextUpdateOfUnknownSession ==
    /\ [](\A id \in DOMAIN sessions : Makers(id) # {})
    /\ [][/\ (/\ Started
              /\ Last(ops').kind = "text_update"
              /\ Last(ops').arg.session_id \notin DOMAIN sessions)
             => LET c == Last(ops').who
                    id == Last(ops').arg.session_id
                    text == Last(ops').arg.text
                IN /\ UNCHANGED <<store, pinned_transcription_clients>>
                   /\ id \notin DOMAIN sessions'
                   /\ pending'[c] = <<[type |-> "slides_update", session_id |-> id,
                                       slides |-> parse_notepad_text(text),
                                       raw_text |-> text]>>
          /\ \A c \in Conns :
               (pending[c] # <<>> /\ pending'[c] # pending[c])
               => chan' = Append(chan, Head(pending[c]))
          /\ (/\ Started
              /\ Last(ops').kind = "join_session"
              /\ Last(ops').arg.session_id \notin DOMAIN sessions)
             => /\ chan' = chan
                /\ pending' = pending
                /\ UNCHANGED store]_vars

\* C35 witness: a TextUpdate for an id that was never created has put its
\* SlidesUpdate into the channel, and the JoinSession for the same id that
\* followed added nothing to it; the store holds no session.
C35_Witness ==
    /\ Len(ops) = 2
    /\ ops[1].kind = "text_update"
    /\ ops[2].kind = "join_session"
    /\ ops[2].arg.session_id = ops[1].arg.session_id
    /\ sessions = <<>>
    /\ chan = <<[type |-> "slides_update", session_id |-> ops[1].arg.session_id,
                 slides |-> parse_notepad_text(ops[1].arg.text),
                 raw_text |-> ops[1].arg.text]>>
    /\ ops[1].arg.text # <<>>

\* The positions of the channel that hold a SlidesUpdate for the session.
SlidesUpdatesFor(id) ==
    {k \in DOMAIN chan : chan[k].type = "slides_update" /\ chan[k].session_id = id}

\* Every operation so far rewrote or read a stored session: no session was
\* created empty or deleted, and no TextUpdate came for an id not stored.
OnlyRewrites ==
    \A n \in DOMAIN ops :
      /\ ops[n].kind \in {"upsert", "text_update", "join_session"}
      /\ ops[n].kind = "text_update" => ops[n].existed

\* C36: once every handler and command that rewrote a session has finished
\* its sends, the last SlidesUpdate in the channel for that session carries
\* the slides and the raw text the store holds for it.
C36_LastUpdateMatchesStore ==
    (OnlyRewrites /\ \A p \in Callers : pending[p] = <<>>)
      => \A id \in DOMAIN sessions :
           LET last == CHOOSE k \in SlidesUpdatesFor(id) :
                         \A j \in SlidesUpdatesFor(id) : j <= k
           IN  /\ SlidesUpdatesFor(id) # {}
               /\ chan[last].slides = sessions[id].slides
               /\ chan[last].raw_text = sessions[id].raw_text

\* No stop has been called so far.
NoStopCalled ==
    /\ \A n \in DOMAIN HostOps : HostOps[n].kind # "stop"
    /\ \A w \in Hosts : call[w].kind # "stop"

\* C37: a start call made while the running flag is true returns "Server is
\* already running" and leaves the flag, the port and the shutdown handle as
\* they were; and as long as no stop has been called, at most one server
\* task has been spawned, whatever the interleaving of the start calls.
C37_OneStartAtATime ==
    /\ [][(Started /\ Last(ops').kind = "start" /\ running /\ call' = call)
            => /\ Last(ops').arg.ret = "Server is already running"
               /\ UNCHANGED <<running, port, shutdown_tx, task>>]_vars
    /\ [](NoStopCalled
            => Cardinality({k \in TaskIds : task[k].state # "none"}) <= 1)

\* The most recent call of the host was a start, it returned Ok, and no call
\* is in progress.
StartIsLast ==
    /\ HostOps # <<>>
    /\ Last(HostOps).kind = "start"
    /\ Last(HostOps).arg.ret = "Ok"
    /\ CallsInProgress = 0

\* C38: after any sequence of start and stop calls whose last call was a
\* successful start, the running flag is true, and the shutdown handle, when
\* one is stored, is that of the task this start spawned.
C38_FlagFollowsLastStart ==
    StartIsLast
      => /\ running = TRUE
         /\ shutdown_tx \in {None, Some(Last(HostOps).arg.task)}

\* C39: the connected-client counter of the sync relay is never negative.
C39_CounterNeverNegative == sync_state.connected_clients >= 0

\* C40: a call of broadcast_sync_message that returned an error, and during
\* which no other sync operation completed, left the cache as it found it.
C40_FailedBroadcastKeepsCache ==
    \A n \in DOMAIN sync_ops :
      (/\ sync_ops[n].kind = "broadcast"
       /\ sync_ops[n].envelope.ret # "Ok"
       /\ sync_ops[n].begun = n - 1)
      => cache_log[sync_ops[n].to] = cache_log[sync_ops[n].from]

=============================================================================
